---------------------------- MODULE Spec2Model ----------------------------
(***************************************************************************)
(* Zoni v2 - zone-overlap resolution (ZoneamentoResolvedor, the rulebook   *)
(* aplicar_regra_sobreposicao) and the analisar_lote pipeline that runs    *)
(* them, modelled from the Python sources.                                 *)
(*                                                                         *)
(* Strings are Python str values.  A zone code or a street name is kept as *)
(* a TLA+ string; every operation that looks inside a string (startswith,  *)
(* in, upper, lower, strip, the ordering used by sorted) works on its      *)
(* character sequence, given by Chars.                                     *)
(***************************************************************************)
EXTENDS Integers, Sequences, FiniteSets, TLC

(***************************************************************************)
(* Bounds of the model.                                                    *)
(***************************************************************************)
\* largest number of geometrically incident zone codes in one request
MaxZonas == 2

\* largest number of cells in the block read from the slope raster
MaxPixels == 2

\* largest number of features in a zoning layer
MaxFeicoes == 2

\* largest number of analysis requests made in one session of the dialog
MaxPedidos == 2

\* largest number of parcels selected for a joint analysis
MaxLotes == 4

\* Python's None, for the Optional[str] fields
None == "<None>"

(***************************************************************************)
(* Characters and Python's string operations.                              *)
(***************************************************************************)
\* the characters that occur in the model's strings, in code-point order
Alfabeto ==
    <<
       " ", "1", "2", "3", "4", "A", "B", "C", "D", "E", "G", "H", "I",
       "J", "L", "M", "N", "O", "P", "Q", "R", "S", "T", "U", "V", "X",
       "Z", "a", "b", "c", "d", "e", "g", "h", "i", "j", "l", "m", "n",
       "o", "p", "q", "r", "s", "t", "u", "v", "x", "z", "Ã", "Ú", "ã",
       "ú" >>


\* ord(ch), up to the order-preserving renumbering of the alphabet
Ord(ch) == CHOOSE i \in 1..Len(Alfabeto) : Alfabeto[i] = ch

\* str.upper() of one character
UpperChar(ch) ==
    CASE ch = "a" -> "A" [] ch = "b" -> "B" [] ch = "c" -> "C"
      [] ch = "d" -> "D" [] ch = "e" -> "E" [] ch = "g" -> "G"
      [] ch = "h" -> "H" [] ch = "i" -> "I" [] ch = "j" -> "J"
      [] ch = "l" -> "L" [] ch = "m" -> "M" [] ch = "n" -> "N"
      [] ch = "o" -> "O" [] ch = "p" -> "P" [] ch = "q" -> "Q"
      [] ch = "r" -> "R" [] ch = "s" -> "S" [] ch = "t" -> "T"
      [] ch = "u" -> "U" [] ch = "v" -> "V" [] ch = "x" -> "X"
      [] ch = "z" -> "Z" [] ch = "ã" -> "Ã" [] ch = "ú" -> "Ú"
      [] OTHER -> ch

\* str.lower() of one character
LowerChar(ch) ==
    CASE ch = "A" -> "a" [] ch = "B" -> "b" [] ch = "C" -> "c"
      [] ch = "D" -> "d" [] ch = "E" -> "e" [] ch = "G" -> "g"
      [] ch = "H" -> "h" [] ch = "I" -> "i" [] ch = "J" -> "j"
      [] ch = "L" -> "l" [] ch = "M" -> "m" [] ch = "N" -> "n"
      [] ch = "O" -> "o" [] ch = "P" -> "p" [] ch = "Q" -> "q"
      [] ch = "R" -> "r" [] ch = "S" -> "s" [] ch = "T" -> "t"
      [] ch = "U" -> "u" [] ch = "V" -> "v" [] ch = "X" -> "x"
      [] ch = "Z" -> "z" [] ch = "Ã" -> "ã" [] ch = "Ú" -> "ú"
      [] OTHER -> ch

\* unicodedata.normalize("NFD", .) with the combining marks (category Mn)
\* dropped: an accented letter becomes its base letter
SemAcento(ch) ==
    CASE ch = "Ã" -> "A" [] ch = "Ú" -> "U" [] ch = "ã" -> "a"
      [] ch = "ú" -> "u" [] OTHER -> ch


\* the character sequence of a string literal of the model
Chars(s) ==
    CASE s = "ZE1" ->
            <<"Z", "E", "1">>
      [] s = "ZE2" ->
            <<"Z", "E", "2">>
      [] s = "ZEOT2" ->
            <<"Z", "E", "O", "T", "2">>
      [] s = "EU1" ->
            <<"E", "U", "1">>
      [] s = "EU2" ->
            <<"E", "U", "2">>
      [] s = "MUQ2" ->
            <<"M", "U", "Q", "2">>
      [] s = "MUQ3" ->
            <<"M", "U", "Q", "3">>
      [] s = "MUPA1" ->
            <<"M", "U", "P", "A", "1">>
      [] s = "MUO" ->
            <<"M", "U", "O">>
      [] s = "MRO" ->
            <<"M", "R", "O">>
      [] s = "MEU" ->
            <<"M", "E", "U">>
      [] s = "MUIS" ->
            <<"M", "U", "I", "S">>
      [] s = "SEMIEIXO" ->
            <<"S", "E", "M", "I", "E", "I", "X", "O">>
      [] s = "ZR1" ->
            <<"Z", "R", "1">>
      [] s = "ZR2" ->
            <<"Z", "R", "2">>
      [] s = "ZE" ->
            <<"Z", "E">>
      [] s = "EU" ->
            <<"E", "U">>
      [] s = "EIXO" ->
            <<"E", "I", "X", "O">>
      [] s = "MUPA" ->
            <<"M", "U", "P", "A">>
      [] s = "MRPA" ->
            <<"M", "R", "P", "A">>
      [] s = "MUQ" ->
            <<"M", "U", "Q">>
      [] s = "MUCON" ->
            <<"M", "U", "C", "O", "N">>
      [] s = "MACRO" ->
            <<"M", "A", "C", "R", "O">>
      [] s = "MZ" ->
            <<"M", "Z">>
      [] s = "EIXOACESSO" ->
            <<"E", "I", "X", "O", "A", "C", "E", "S", "S", "O">>
      [] s = "EIXOORLA" ->
            <<"E", "I", "X", "O", "O", "R", "L", "A">>
      [] s = "EU3" ->
            <<"E", "U", "3">>
      [] s = "EU4" ->
            <<"E", "U", "4">>
      [] s = "EA" ->
            <<"E", "A">>
      [] s = "EO" ->
            <<"E", "O">>
      [] s = "EM" ->
            <<"E", "M">>
      [] s = "SEMI" ->
            <<"S", "E", "M", "I">>
      [] s = "Rua Lúcio Joaquim Mendes" ->
            <<"R", "u", "a", " ", "L", "ú", "c", "i", "o", " ", "J", "o", "a", "q", "u", "i", "m", " ", "M", "e", "n", "d", "e", "s">>
      [] s = "RUA LUCIO JOAQUIM MENDES" ->
            <<"R", "U", "A", " ", "L", "U", "C", "I", "O", " ", "J", "O", "A", "Q", "U", "I", "M", " ", "M", "E", "N", "D", "E", "S">>
      [] s = "Rua Sebastião Manoel Coelho" ->
            <<"R", "u", "a", " ", "S", "e", "b", "a", "s", "t", "i", "ã", "o", " ", "M", "a", "n", "o", "e", "l", " ", "C", "o", "e", "l", "h", "o">>
      [] s = "Av Governador Celso Ramos" ->
            <<"A", "v", " ", "G", "o", "v", "e", "r", "n", "a", "d", "o", "r", " ", "C", "e", "l", "s", "o", " ", "R", "a", "m", "o", "s">>
      [] s = "Rua São Paulo" ->
            <<"R", "u", "a", " ", "S", "ã", "o", " ", "P", "a", "u", "l", "o">>
      [] s = "Rua A" ->
            <<"R", "u", "a", " ", "A">>
      [] s = "sebastião manoel coelho" ->
            <<"s", "e", "b", "a", "s", "t", "i", "ã", "o", " ", "m", "a", "n", "o", "e", "l", " ", "c", "o", "e", "l", "h", "o">>
      [] s = "lúcio joaquim mendes" ->
            <<"l", "ú", "c", "i", "o", " ", "j", "o", "a", "q", "u", "i", "m", " ", "m", "e", "n", "d", "e", "s">>
      [] s = "LUCIO" ->
            <<"L", "U", "C", "I", "O">>
      [] s = "MENDES" ->
            <<"M", "E", "N", "D", "E", "S">>
      [] s = "AV GOVERNADOR CELSO RAMOS" ->
            <<"A", "V", " ", "G", "O", "V", "E", "R", "N", "A", "D", "O", "R", " ", "C", "E", "L", "S", "O", " ", "R", "A", "M", "O", "S">>
      [] s = "RUA SAO PAULO" ->
            <<"R", "U", "A", " ", "S", "A", "O", " ", "P", "A", "U", "L", "O">>
      [] s = "" ->
            << >>
      [] s = "RUA OLINDINA PEIXOTO" ->
            <<"R", "U", "A", " ", "O", "L", "I", "N", "D", "I", "N", "A", " ", "P", "E", "I", "X", "O", "T", "O">>

Upper(s) == [i \in 1..Len(s) |-> UpperChar(s[i])]
Lower(s) == [i \in 1..Len(s) |-> LowerChar(s[i])]

\* str.strip(): leading and trailing blanks removed
Strip(s) ==
    LET naoBranco == {i \in 1..Len(s) : s[i] # " "}
    IN  IF naoBranco = {} THEN << >>
        ELSE LET a == CHOOSE i \in naoBranco : \A j \in naoBranco : i <= j
                 b == CHOOSE i \in naoBranco : \A j \in naoBranco : i >= j
             IN  SubSeq(s, a, b)

\* s.startswith(p)
StartsWith(s, p) == Len(p) <= Len(s) /\ SubSeq(s, 1, Len(p)) = p

\* p in s (substring)
Contem(s, p) ==
    \E i \in 0..(Len(s) - Len(p)) : SubSeq(s, i + 1, i + Len(p)) = p

\* a < b for two str values: the first differing code point decides, a proper
\* prefix is smaller
StrMenor(a, b) ==
    \/ \E i \in 1..Len(a) :
          /\ i <= Len(b)
          /\ SubSeq(a, 1, i - 1) = SubSeq(b, 1, i - 1)
          /\ Ord(a[i]) < Ord(b[i])
    \/ Len(a) < Len(b) /\ SubSeq(b, 1, Len(a)) = a


(***************************************************************************)
(* Python lists, sets and dicts.                                           *)
(*   list  : a sequence                                                    *)
(*   set   : a duplicate-free sequence (the iteration order of a Python    *)
(*           set is unspecified; the code reads its sets only through      *)
(*           sorted(), which is modelled on that sequence)                 *)
(*   dict  : a function whose DOMAIN is the set of keys                    *)
(*   Optional[record] : << >> for None, <<r>> for a value                  *)
(***************************************************************************)
Range(seq) == {seq[i] : i \in 1..Len(seq)}

\* x in lista
Em(x, lista) == \E i \in 1..Len(lista) : lista[i] = x

\* set(lista), and set.update(lista) / set.add(x) as SetUpdate(s, lista)
RECURSIVE SetUpdate(_, _)
SetUpdate(s, lista) ==
    IF lista = << >> THEN s
    ELSE SetUpdate(IF Em(Head(lista), s) THEN s ELSE Append(s, Head(lista)),
                   Tail(lista))

SetDe(lista) == SetUpdate(<< >>, lista)

\* dict.get(k, padrao)
Get(d, k, padrao) == IF k \in DOMAIN d THEN d[k] ELSE padrao

\* dict.setdefault(k, v), as the resulting dict
SetDefault(d, k, v) ==
    IF k \in DOMAIN d THEN d ELSE [x \in DOMAIN d \cup {k} |-> IF x = k THEN v ELSE d[x]]

\* insertion of one str into a sorted list of str, before the first larger one
RECURSIVE Inserir(_, _)
Inserir(x, ord) ==
    IF ord = << >> THEN <<x>>
    ELSE IF StrMenor(Chars(x), Chars(Head(ord))) THEN <<x>> \o ord
         ELSE <<Head(ord)>> \o Inserir(x, Tail(ord))

RECURSIVE OrdenarStr(_)
OrdenarStr(lista) ==
    IF lista = << >> THEN << >>
    ELSE Inserir(Head(lista), OrdenarStr(Tail(lista)))

\* a plausible slip: the set is iterated as it is, without sorted()
sorted_SemOrdenar(lista) == lista

\* sorted(s) for a list or set of str: ascending by code point
sorted(lista) == OrdenarStr(lista)

\* max(lista, key=...) on a non-empty list, chaves[i] being the key of
\* lista[i]: the first element whose key is maximal (a later element replaces
\* the candidate only if its key is larger)
MaxPrimeiro(lista, chaves) ==
    LET i == CHOOSE i \in 1..Len(lista) :
                /\ \A j \in 1..Len(lista) : chaves[j] <= chaves[i]
                /\ \A j \in 1..(i - 1) : chaves[j] < chaves[i]
    IN  lista[i]

\* sum(lista)
RECURSIVE Soma(_)
Soma(lista) == IF lista = << >> THEN 0 ELSE Head(lista) + Soma(Tail(lista))

(***************************************************************************)
(* dominio/motores/zoneamento_resolvedor.py                                *)
(***************************************************************************)
NaoVazio(z) == z # ""

\* one part of a rationale text: its fixed wording and the zone codes the
\* f-string puts into it; " ".join(parts) is the sequence of the parts
Parte(frase, nomes) == [frase |-> frase, nomes |-> nomes]

\* ZonaAplicada(codigo, tipo, area_m2, percentual_area, parametros=None, notas, origem);
\* percentual_area = area / total * 100 is kept exact, as <<area * 100, total>>
ZonaAplicada(codigo, tipo, area_m2, percentual_area, notas, origem) ==
    [codigo |-> codigo, tipo |-> tipo, area_m2 |-> area_m2,
     percentual_area |-> percentual_area, parametros |-> << >>,
     notas |-> notas, origem |-> origem]

\* ZoneamentoResolvedor._classificar_zona
ZoneamentoResolvedor_classificar_zona(codigo) ==
    IF codigo = "" THEN "ORDINARIA"
    ELSE
      LET cod == Upper(Strip(Chars(codigo)))
      IN  IF StartsWith(cod, Chars("ZE")) THEN "ESPECIAL"
          ELSE IF StartsWith(cod, Chars("EU")) \/ StartsWith(cod, Chars("EIXO"))
               THEN "EIXO"
          ELSE IF \/ StartsWith(cod, Chars("MUPA"))
                  \/ StartsWith(cod, Chars("MRO"))
                  \/ StartsWith(cod, Chars("MRPA"))
               THEN "AMBIENTAL"
          ELSE IF \/ StartsWith(cod, Chars("MUQ"))
                  \/ StartsWith(cod, Chars("MUO"))
                  \/ StartsWith(cod, Chars("MUCON"))
                  \/ cod = Chars("MEU")
                  \/ cod = Chars("MUIS")
               THEN "MACRO"
          ELSE IF StartsWith(cod, Chars("MACRO")) \/ StartsWith(cod, Chars("MZ"))
               THEN "MACRO"
          ELSE "ORDINARIA"

\* _eh_macro_coexistencia, the local function of _resolver_sobreposicoes
_eh_macro_coexistencia(codigo) ==
    LET c == Upper(Chars(codigo))
    IN  \/ StartsWith(c, Chars("MUQ"))
        \/ StartsWith(c, Chars("MUO"))
        \/ StartsWith(c, Chars("MUCON"))
        \/ c = Chars("MEU")
        \/ c = Chars("MUIS")

\* a plausible slip: every incident zone is listed with the total incident area
InfoZonas_AreaTotal(zonas_ordenadas, zonas_areas, notas_ativas) ==
    LET total == Soma([i \in 1..Len(zonas_ordenadas) |->
                          Get(zonas_areas, zonas_ordenadas[i], 0)])
    IN  [i \in 1..Len(zonas_ordenadas) |->
            ZonaAplicada(zonas_ordenadas[i],
                         ZoneamentoResolvedor_classificar_zona(zonas_ordenadas[i]),
                         total, <<100, 1>>, << >>, "INTERSECCAO")]

\* step 2 of _resolver_sobreposicoes: the ZonaAplicada of every zone of the set
InfoZonas(zonas_ordenadas, zonas_areas, notas_ativas) ==
    LET area_total_incidente ==
            Soma([i \in 1..Len(zonas_ordenadas) |->
                     Get(zonas_areas, zonas_ordenadas[i], 0)])
    IN  [i \in 1..Len(zonas_ordenadas) |->
            LET z == zonas_ordenadas[i]
                area == Get(zonas_areas, z, 0)
                perc == IF area_total_incidente > 0
                        THEN <<area * 100, area_total_incidente>>
                        ELSE <<0, 1>>
                n10 == z = "ZEOT2" /\ Em("10", notas_ativas)
                n37 == z = "MUQ3" /\ Em("37", notas_ativas)
            IN  ZonaAplicada(z, ZoneamentoResolvedor_classificar_zona(z), area, perc,
                             (IF n10 THEN <<"10">> ELSE << >>)
                                 \o (IF n37 THEN <<"37">> ELSE << >>),
                             IF n37 THEN "NOTA37"
                             ELSE IF n10 THEN "NOTA10" ELSE "INTERSECCAO")]

Codigos(lista) == [i \in 1..Len(lista) |-> lista[i].codigo]
Areas(lista) == [i \in 1..Len(lista) |-> lista[i].area_m2]

\* a plausible slip: the fallback takes the largest zone of any type
Candidatos_Todos(info_zonas) == info_zonas

\* step 3.8: the candidates of the fallback (non-environmental zones preferred)
Candidatos(info_zonas) ==
    LET candidatos == SelectSeq(info_zonas, LAMBDA z : z.tipo # "AMBIENTAL")
    IN  IF candidatos = << >> THEN info_zonas ELSE candidatos

\* a plausible slip: a zone called by the Axis rule displaces the Special zone
RefEspecial_EixoPrimeiro(zona_referencia, zonas_especiais, zonas_eixos) ==
    IF zona_referencia # None THEN zona_referencia
    ELSE IF zonas_eixos # << >> THEN MaxPrimeiro(zonas_eixos, Areas(zonas_eixos)).codigo
    ELSE IF zonas_especiais # << >> THEN MaxPrimeiro(zonas_especiais, Areas(zonas_especiais)).codigo
    ELSE None

\* steps 3.1 and 3.2: the reference zone after the Special and the Axis rule
RefEspecial(zona_referencia, zonas_especiais, zonas_eixos) ==
    LET ref31 == IF zonas_especiais # << >> /\ zona_referencia = None
                 THEN MaxPrimeiro(zonas_especiais, Areas(zonas_especiais)).codigo
                 ELSE zona_referencia
    IN  IF zonas_eixos # << >> /\ ref31 = None
        THEN MaxPrimeiro(zonas_eixos, Areas(zonas_eixos)).codigo
        ELSE ref31

\* a plausible slip: the geometry decides and the note's zone is only listed
RefNotas_Ignoradas(nota10_ativada, nota37_ativada) == None

\* step 1: the reference zone the notes force
RefNotas(nota10_ativada, nota37_ativada) ==
    IF nota10_ativada THEN "ZEOT2"
    ELSE IF nota37_ativada THEN "MUQ3" ELSE None

\* a plausible slip: the note's zone is made the reference without being added
ZonasComNotas_SemIncluir(zonas_set, nota10_ativada, nota37_ativada) == zonas_set

\* step 1: zonas_set.add("ZEOT2") / zonas_set.add("MUQ3")
ZonasComNotas(zonas_set, nota10_ativada, nota37_ativada) ==
    SetUpdate(SetUpdate(zonas_set, IF nota10_ativada THEN <<"ZEOT2">> ELSE << >>),
              IF nota37_ativada THEN <<"MUQ3">> ELSE << >>)

\* the sentence step 3.8 appends to the rationale, around the adopted code
TextoZonaPredominante ==
    "Para fins de sintese dos indices urbanisticos, adota-se a zona como zona de referencia por possuir maior area incidente no lote/gleba."

\* a plausible slip: the fallback keeps the label it found
TipoFallback_SemRotulo(fallback, tipo_regra) == tipo_regra

\* step 3.8: the label of the fallback, when no earlier step set one
TipoFallback(fallback, tipo_regra) ==
    IF fallback /\ tipo_regra = "COEXISTENCIA_SIMPLES"
    THEN "ZONA_PREDOMINANTE" ELSE tipo_regra

\* step 1: notas_ativas
NotasAtivas(nota10_ativada, nota37_ativada) ==
    (IF nota10_ativada THEN <<"10">> ELSE << >>)
        \o (IF nota37_ativada THEN <<"37">> ELSE << >>)

\* _resolver_sobreposicoes from step 3 on: the rules, applied to the
\* classified zones info_zonas of step 2
RegrasDeSobreposicao(info_zonas, nota10_ativada, nota37_ativada) ==
    LET notas_ativas == NotasAtivas(nota10_ativada, nota37_ativada)
        partes1 ==
            (IF nota10_ativada
             THEN <<Parte("Aplicada Nota 10 (empreendimento com acesso unico em ZEOT2).", << >>)>>
             ELSE << >>)
            \o (IF nota37_ativada
                THEN <<Parte("Aplicada Nota 37 (lote com frente para a Rua Lucio Joaquim Mendes em MUQ3).", << >>)>>
                ELSE << >>)
        tipo1 == IF nota10_ativada /\ nota37_ativada THEN "NOTAS_10_E_37"
                 ELSE IF nota10_ativada THEN "NOTA_10_ZEOT2"
                 ELSE IF nota37_ativada THEN "NOTA_37_MUQ3"
                 ELSE "COEXISTENCIA_SIMPLES"
        ref1 == RefNotas(nota10_ativada, nota37_ativada)
        area_total_incidente == Soma(Areas(info_zonas))
        zonas_especiais == SelectSeq(info_zonas, LAMBDA z : z.tipo = "ESPECIAL")
        zonas_eixos == SelectSeq(info_zonas, LAMBDA z : z.tipo = "EIXO")
        zonas_ambientais == SelectSeq(info_zonas, LAMBDA z : z.tipo = "AMBIENTAL")
        zonas_macro == SelectSeq(info_zonas, LAMBDA z : z.tipo = "MACRO")
        zonas_ordinarias == SelectSeq(info_zonas, LAMBDA z : z.tipo = "ORDINARIA")
        \* 3.1 special zones, 3.2 axes
        partes31 == IF zonas_especiais # << >>
                    THEN <<Parte("Zonas Especiais incidentes", Codigos(zonas_especiais))>>
                    ELSE << >>
        tipo31 == IF zonas_especiais # << >> /\ ref1 = None
                     /\ tipo1 = "COEXISTENCIA_SIMPLES"
                  THEN "ESPECIAL_PREDOMINANTE" ELSE tipo1
        partes32 == IF zonas_eixos # << >>
                    THEN <<Parte("Incidencia de eixo(s)/semieixo(s)", Codigos(zonas_eixos))>>
                    ELSE << >>
        tipo32 == IF zonas_eixos # << >> /\ tipo31 = "COEXISTENCIA_SIMPLES"
                  THEN "EIXOS_COEXISTENTES" ELSE tipo31
        ref32 == RefEspecial(ref1, zonas_especiais, zonas_eixos)
        \* 3.3 environmental macro zones
        partes33 == IF zonas_ambientais # << >>
                    THEN <<Parte("Macrozona(s) ambiental(is) identificada(s)",
                                 Codigos(zonas_ambientais))>>
                    ELSE << >>
        \* 3.4 coexistence of the urban macro zones
        macros_coexistentes ==
            SelectSeq(info_zonas, LAMBDA z : _eh_macro_coexistencia(z.codigo))
        partes34 == IF Len(macros_coexistentes) > 1
                    THEN <<Parte("Coexistem macrozonas urbanas do grupo MUO/MUQ/MUCON/MEU/MUIS",
                                 Codigos(macros_coexistentes))>>
                    ELSE << >>
        tipo34 == IF Len(macros_coexistentes) > 1
                     /\ tipo32 \in {"COEXISTENCIA_SIMPLES", "EIXOS_COEXISTENTES"}
                  THEN "COEXISTENCIA_MACROS_URBANAS" ELSE tipo32
        \* 3.5 MUIS + MEU
        codigos_presentes == {Upper(Chars(info_zonas[i].codigo)) : i \in 1..Len(info_zonas)}
        observacoes ==
            IF Chars("MUIS") \in codigos_presentes /\ Chars("MEU") \in codigos_presentes
            THEN <<"Ha coexistencia de areas em MUIS e MEU. Aplica-se o art. 29 da LC 278/2025.">>
            ELSE << >>
        \* 3.6 several ordinary zones of equivalent area; sorted(key=area,
        \* reverse=True) keeps the order of equal keys, so a0 and a1 are the
        \* two largest areas
        equivalentes ==
            /\ zonas_eixos = << >> /\ zonas_especiais = << >> /\ zonas_macro = << >>
            /\ Len(zonas_ordinarias) > 1
            /\ area_total_incidente > 0
            /\ LET a0 == MaxPrimeiro(zonas_ordinarias, Areas(zonas_ordinarias))
                   resto == SelectSeq(zonas_ordinarias, LAMBDA z : z # a0)
                   a1 == MaxPrimeiro(resto, Areas(resto))
               IN  \* abs(a0 - a1) / area_total_incidente < 0.05
                   20 * (a0.area_m2 - a1.area_m2) < area_total_incidente
        partes36 == IF equivalentes
                    THEN <<Parte("Foram identificadas multiplas zonas ordinarias com areas equivalentes.", << >>)>>
                    ELSE << >>
        tipo36 == IF equivalentes /\ tipo34 = "COEXISTENCIA_SIMPLES"
                  THEN "COEXISTENCIA_ORDINARIAS_EQUIVALENTES" ELSE tipo34
        partes36a == partes1 \o partes31 \o partes32 \o partes33 \o partes34 \o partes36
        \* 3.7 nothing special detected
        partes37 == IF partes36a = << >>
                    THEN <<Parte("Coexistencia simples de zoneamentos incidentes sobre o lote, sem regra especifica de prevalencia codificada.", << >>)>>
                    ELSE partes36a
        \* 3.8 fallback: the zone of largest area, for the synthesis only
        fallback == ref32 = None /\ info_zonas # << >>
        zona_referencia == IF fallback
                           THEN MaxPrimeiro(Candidatos(info_zonas), Areas(Candidatos(info_zonas))).codigo
                           ELSE ref32
        tipo_regra == TipoFallback(fallback, tipo36)
        resumo == IF fallback
                  THEN Append(partes37,
                              Parte(TextoZonaPredominante, <<zona_referencia>>))
                  ELSE partes37
    IN  [zonas_aplicadas |-> info_zonas, notas_ativas |-> notas_ativas,
         tipo_regra |-> tipo_regra, resumo |-> resumo,
         observacoes |-> observacoes, zona_referencia |-> zona_referencia]

\* ZoneamentoResolvedor._resolver_sobreposicoes; the returned tuple is a
\* record.  Step 0 filters the codes, step 1 adds the zones of the raw
\* intersection and of the notes, step 2 sorts and classifies.
_resolver_sobreposicoes(zonas_incidentes, zonas_areas, res_zon, nota10_ativada, nota37_ativada) ==
    IF SelectSeq(zonas_incidentes, NaoVazio) = << >>
    THEN [zonas_aplicadas |-> << >>, notas_ativas |-> << >>,
          tipo_regra |-> "SEM_ZONEAMENTO",
          resumo |-> <<Parte("Nenhum zoneamento foi detectado sobre o lote.", << >>)>>,
          observacoes |-> << >>, zona_referencia |-> None]
    ELSE RegrasDeSobreposicao(
            InfoZonas(sorted(ZonasComNotas(
                                SetUpdate(SetUpdate(SetDe(SelectSeq(zonas_incidentes, NaoVazio)),
                                                    SelectSeq(res_zon.eixos, NaoVazio)),
                                          SelectSeq(res_zon.especiais, NaoVazio)),
                                nota10_ativada, nota37_ativada)),
                      zonas_areas, NotasAtivas(nota10_ativada, nota37_ativada)),
            nota10_ativada, nota37_ativada)

\* resolver: the raw zone joins the incident zones when it is not among them
IncluiBruta(res_zon, res_geom) ==
    /\ res_zon.zona # None /\ res_zon.zona # ""
    /\ ~Em(res_zon.zona, res_geom.zonas)

\* resolver: each applied zone gets the parameters of its code, when the
\* table has them
AnexarParametros(parametros_por_zona, zonas_aplicadas) ==
    [i \in 1..Len(zonas_aplicadas) |->
        IF zonas_aplicadas[i].codigo \in DOMAIN parametros_por_zona
        THEN [zonas_aplicadas[i] EXCEPT
                 !.parametros = <<parametros_por_zona[zonas_aplicadas[i].codigo]>>]
        ELSE zonas_aplicadas[i]]

\* resolver: parametros_legado, the parameters of the reference zone
ParametrosLegado(parametros_por_zona, zona_referencia) ==
    IF zona_referencia # None /\ zona_referencia # ""
       /\ zona_referencia \in DOMAIN parametros_por_zona
    THEN <<parametros_por_zona[zona_referencia]>>
    ELSE << >>

\* resolver: the ZonaResolvida it returns, r being what
\* _resolver_sobreposicoes returned
ZonaResolvida(res_zon, r, zonas_aplicadas, parametros_legado) ==
    [zonas_aplicadas |-> zonas_aplicadas,
     notas_ativas |-> r.notas_ativas,
     tipo_regra |-> r.tipo_regra,
     resumo |-> r.resumo,
     observacoes |-> r.observacoes,
     macrozona |-> res_zon.macrozona,
     eixos |-> Codigos(SelectSeq(zonas_aplicadas, LAMBDA z : z.tipo = "EIXO")),
     especiais |-> Codigos(SelectSeq(zonas_aplicadas, LAMBDA z : z.tipo = "ESPECIAL")),
     zona_principal |-> r.zona_referencia,
     zonas_incidentes |-> sorted(SetDe(Codigos(zonas_aplicadas))),
     parametros |-> parametros_legado,
     motivo |-> ""]

\* resolver, after the call of _resolver_sobreposicoes
ZonaResolvidaDe(parametros_por_zona, res_zon, r) ==
    ZonaResolvida(res_zon, r,
                  AnexarParametros(parametros_por_zona, r.zonas_aplicadas),
                  ParametrosLegado(parametros_por_zona, r.zona_referencia))

\* ZoneamentoResolvedor.resolver; parametros_por_zona is self._parametros_por_zona
resolver(parametros_por_zona, res_zon, res_geom, nota10_ativada, nota37_ativada) ==
    ZonaResolvidaDe(
        parametros_por_zona, res_zon,
        _resolver_sobreposicoes(
            IF IncluiBruta(res_zon, res_geom)
            THEN Append(res_geom.zonas, res_zon.zona) ELSE res_geom.zonas,
            IF IncluiBruta(res_zon, res_geom)
            THEN SetDefault(res_geom.areas_por_zona, res_zon.zona, 0)
            ELSE res_geom.areas_por_zona,
            res_zon, nota10_ativada, nota37_ativada))

(***************************************************************************)
(* dominio/regras/regra_sobreposicao_zoneamento.py                         *)
(***************************************************************************)
\* MAPA_LOGRADOURO_EIXO and MAPA_LOGRADOURO_SEMIEIXO, as lists of
\* <<pattern, zone>> in the order of the dict literals
MAPA_LOGRADOURO_EIXO == << <<"AV GOVERNADOR CELSO RAMOS", "EU1">> >>

MAPA_LOGRADOURO_SEMIEIXO ==
    << <<"RUA SAO PAULO", "SEMIEIXO">>, <<"RUA OLINDINA PEIXOTO", "SEMIEIXO">> >>

\* MACROZONAS_COEXISTENTES
MACROZONAS_COEXISTENTES == {"MUO", "MUPA1", "MUPA2", "MRPA"}

\* _classificar_zona of the rulebook module
_classificar_zona(codigo) ==
    IF codigo = "" THEN "OUTRA"
    ELSE
      LET cod == Strip(Upper(Chars(codigo)))
      IN  IF StartsWith(cod, Chars("ZE")) THEN "ESPECIAL"
          ELSE IF \/ \E pre \in {"EIXOACESSO", "EIXOORLA", "EU1", "EU2", "EU3",
                                 "EU4", "EA", "EO", "EM"} :
                        StartsWith(cod, Chars(pre))
                  \/ Contem(cod, Chars("EIXO"))
               THEN "EIXO"
          ELSE IF StartsWith(cod, Chars("SEMI")) THEN "SEMIEIXO"
          ELSE IF \E pre \in {"MUQ", "MEU", "MUIS", "MUCON", "MUO", "MUPA",
                              "MRO", "MRPA"} :
                      StartsWith(cod, Chars(pre))
               THEN "MACRO"
          ELSE "OUTRA"

\* _normalizar_nome_logradouro, on the character sequence of the name
_normalizar_nome_logradouro(nome) ==
    IF nome = "" THEN << >>
    ELSE LET texto == Strip(Upper(Chars(nome)))
         IN  [i \in 1..Len(texto) |-> SemAcento(texto[i])]

\* the first entry of a pattern table whose pattern occurs in the name
PrimeiroPadrao(mapa, nome_norm) ==
    LET achados == {i \in 1..Len(mapa) : Contem(nome_norm, Chars(mapa[i][1]))}
    IN  IF achados = {} THEN None
        ELSE mapa[CHOOSE i \in achados : \A j \in achados : i <= j][2]

\* _zona_por_logradouro
_zona_por_logradouro(nome_logradouro) ==
    IF nome_logradouro = "" THEN None
    ELSE LET nome_norm == _normalizar_nome_logradouro(nome_logradouro)
             eixo == PrimeiroPadrao(MAPA_LOGRADOURO_EIXO, nome_norm)
         IN  IF eixo # None THEN eixo
             ELSE PrimeiroPadrao(MAPA_LOGRADOURO_SEMIEIXO, nome_norm)

\* _zona_maior_area, the local function of aplicar_regra_sobreposicao: the
\* first code whose area is larger than that of every code before it and not
\* smaller than that of any code after it (melhor_area starts at -1.0)
_zona_maior_area(codigos, areas_por_zona) ==
    IF codigos = << >> THEN None
    ELSE MaxPrimeiro(codigos, [i \in 1..Len(codigos) |-> Get(areas_por_zona, codigos[i], 0)])

\* the rationale of step 7 for several macro zones, around the code of the
\* macro zone of largest area
TextoMacroMultipla ==
    "Foram identificadas multiplas macrozonas incidentes sobre o lote. A macrozona de maior area tende a ser predominante, porem a interpretacao definitiva depende de analise caso a caso."

\* a plausible slip: several macro zones and the legacy answer, no zone
MacroMultipla_SemPrincipal(zonas_macros, areas_por_zona) == None

\* step 7, more than one macro zone: the macro zone of largest area
MacroMultipla(zonas_macros, areas_por_zona) ==
    _zona_maior_area(zonas_macros, areas_por_zona)

\* ResultadoRegraSobreposicao
ResultadoRegraSobreposicao(zonas_consideradas, zona_principal, tipo_regra, motivo, zonas_especiais, zonas_eixo, zonas_macros) ==
    [zonas_consideradas |-> zonas_consideradas, zona_principal |-> zona_principal,
     tipo_regra |-> tipo_regra, motivo |-> motivo,
     zonas_especiais |-> zonas_especiais, zonas_eixo |-> zonas_eixo,
     zonas_macros |-> zonas_macros]

\* the zona_principal of step 5.b of aplicar_regra_sobreposicao with the largest
\* of the macro zones of mandatory coexistence instead of the axis
ZonaPrincipalDaCoexistencia_MaiorFixa(zonas_eixo, zonas_macros_fixas, areas_por_zona) ==
    _zona_maior_area(zonas_macros_fixas, areas_por_zona)

\* the zona_principal of step 5.b of aplicar_regra_sobreposicao:
\* _zona_maior_area(zonas_eixo) if zonas_eixo else None
ZonaPrincipalDaCoexistencia(zonas_eixo, zonas_macros_fixas, areas_por_zona) ==
    IF zonas_eixo # << >> THEN _zona_maior_area(zonas_eixo, areas_por_zona) ELSE None

\* aplicar_regra_sobreposicao, steps 4 to 8: the precedence among the
\* classified zones
RegraDePrecedencia(zonas_unicas, areas_por_zona, zonas_especiais, zonas_eixo, zonas_semieixo, zonas_macros) ==
    LET zonas_macros_fixas == SelectSeq(zonas_macros, LAMBDA z : z \in MACROZONAS_COEXISTENTES)
        zonas_macros_variaveis ==
            SelectSeq(zonas_macros, LAMBDA z : z \notin MACROZONAS_COEXISTENTES)
        zp_eixo == _zona_maior_area(zonas_eixo, areas_por_zona)
    IN
    IF zonas_especiais # << >>
    THEN \* 4) a special zone prevails
         LET zp == _zona_maior_area(zonas_especiais, areas_por_zona)
         IN  ResultadoRegraSobreposicao(zonas_unicas, zp, "ZONA_ESPECIAL_PREDOMINANTE",
                Parte("Foram identificadas zonas especiais (ZE...) incidentes sobre o lote. A zona especial de maior area prevalece.", <<zp>>),
                zonas_especiais, zonas_eixo, zonas_macros)
    ELSE IF zonas_eixo # << >> /\ zonas_macros_variaveis # << >>
    THEN \* 5.a) axis over macro zone
         ResultadoRegraSobreposicao(zonas_unicas, zp_eixo, "EIXO_SOBRE_MACRO",
            Parte("Foram identificadas zonas de eixo urbano em conjunto com macrozonas nao protegidas por regime especial de coexistencia. O eixo prevalece.", <<zp_eixo>>),
            << >>, zonas_eixo, zonas_macros)
    ELSE IF zonas_eixo # << >> /\ zonas_semieixo # << >>
    THEN \* axis over semi-axis
         ResultadoRegraSobreposicao(zonas_unicas, zp_eixo, "EIXO_SOBRE_SEMIEIXO",
            Parte("Foram identificadas testadas voltadas simultaneamente para eixo e semieixo urbano. O eixo prevalece.", <<zp_eixo>>),
            << >>, zonas_eixo, zonas_macros)
    ELSE IF zonas_macros_fixas # << >>
    THEN \* 5.b) macro zones of mandatory coexistence
         ResultadoRegraSobreposicao(zonas_unicas,
            ZonaPrincipalDaCoexistencia(zonas_eixo, zonas_macros_fixas, areas_por_zona),
            "COEXISTENCIA_MACROZONAS_FIXAS",
            Parte("Foram identificadas macrozonas com regime juridico de coexistencia obrigatoria (MUO, MUPA, MRPA).", << >>),
            << >>, zonas_eixo, zonas_macros)
    ELSE IF zonas_eixo # << >> /\ zonas_macros = << >>
    THEN \* 6) axes only
         ResultadoRegraSobreposicao(zonas_unicas, zp_eixo, "APENAS_EIXO",
            Parte("Apenas zonas de eixo urbano foram identificadas sobre o lote. Considera-se o eixo de maior area como zona principal.", <<zp_eixo>>),
            << >>, zonas_eixo, << >>)
    ELSE IF zonas_macros # << >> /\ zonas_eixo = << >>
    THEN \* 7) macro zones only
         IF Len(zonas_macros) = 1
         THEN ResultadoRegraSobreposicao(zonas_unicas, zonas_macros[1], "MACRO_UNICA",
                 Parte("Foi identificada uma unica macrozona sobre o lote. Aplica-se diretamente a disciplina dessa macrozona.", <<zonas_macros[1]>>),
                 << >>, << >>, zonas_macros)
         ELSE LET zp == MacroMultipla(zonas_macros, areas_por_zona)
              IN  ResultadoRegraSobreposicao(zonas_unicas, zp, "MACRO_MULTIPLA",
                     Parte(TextoMacroMultipla, <<zp>>),
                     << >>, << >>, zonas_macros)
    ELSE \* 8) no specific rule
         ResultadoRegraSobreposicao(zonas_unicas, None, "SEM_REGRA_ESPECIFICA",
            Parte("Foram identificadas zonas incidentes sobre o lote, mas o conjunto nao se enquadra em nenhuma das regras especificas.", << >>),
            zonas_especiais, zonas_eixo, zonas_macros)

\* aplicar_regra_sobreposicao, step 3: the classification of the zones
RegraClassificada(zonas_unicas, areas_por_zona) ==
    RegraDePrecedencia(
        zonas_unicas, areas_por_zona,
        SelectSeq(zonas_unicas, LAMBDA z : _classificar_zona(z) = "ESPECIAL"),
        SelectSeq(zonas_unicas, LAMBDA z : _classificar_zona(z) = "EIXO"),
        SelectSeq(zonas_unicas, LAMBDA z : _classificar_zona(z) = "SEMIEIXO"),
        SelectSeq(zonas_unicas, LAMBDA z : _classificar_zona(z) = "MACRO"))

\* step 2.b: the zones with the axis / semi-axis deduced from the frontage
\* streets
ComZonasDeduzidas(zonas_unicas, zonas_deduzidas) ==
    IF zonas_deduzidas # << >>
    THEN sorted(SetDe(zonas_unicas \o zonas_deduzidas))
    ELSE zonas_unicas

\* steps 1 and 2.a: the result of a note, zonas_consideradas holding its zone
RegraDeNota(zonas_consideradas, zona, tipo_regra, motivo) ==
    ResultadoRegraSobreposicao(
        zonas_consideradas, zona, tipo_regra, Parte(motivo, << >>),
        IF zona = "ZEOT2"
        THEN (IF Em("ZEOT2", zonas_consideradas) THEN <<"ZEOT2">> ELSE << >>)
        ELSE SelectSeq(zonas_consideradas, LAMBDA z : _classificar_zona(z) = "ESPECIAL"),
        IF zona = "ZEOT2"
        THEN SelectSeq(zonas_consideradas, LAMBDA z : _classificar_zona(z) = "EIXO")
        ELSE <<"MUQ3">>,
        SelectSeq(zonas_consideradas, LAMBDA z : _classificar_zona(z) = "MACRO"))

\* step 2.a: Note 37 deduced from a frontage on Lucio Joaquim Mendes
AcessoLucio(testadas_por_logradouro) ==
    \E i \in 1..Len(testadas_por_logradouro) :
        /\ Contem(_normalizar_nome_logradouro(testadas_por_logradouro[i]), Chars("LUCIO"))
        /\ Contem(_normalizar_nome_logradouro(testadas_por_logradouro[i]), Chars("MENDES"))

\* aplicar_regra_sobreposicao from step 0 on, zonas_unicas being sorted(set(zonas))
RegraDasZonasUnicas(zonas_unicas, areas_por_zona, testadas_por_logradouro, nota10_ativada, nota37_ativada) ==
    IF zonas_unicas = << >>
    THEN ResultadoRegraSobreposicao(<< >>, None, "SEM_ZONEAMENTO",
            Parte("Nenhuma zona do Anexo III foi identificada sobre o lote.", << >>),
            << >>, << >>, << >>)
    ELSE IF nota10_ativada
    THEN \* 1) Nota 10
         RegraDeNota(sorted(SetDe(zonas_unicas \o <<"ZEOT2">>)), "ZEOT2", "NOTA_10_ZEOT2",
                     "Aplicada a Nota 10 do Anexo III da LC 275/2025: prevalece a disciplina da ZEOT2 sobre as demais zonas incidentes.")
    ELSE IF nota37_ativada \/ AcessoLucio(testadas_por_logradouro)
    THEN \* 2.a) Nota 37, by the flag or deduced from the frontage streets
         RegraDeNota(sorted(SetDe(zonas_unicas \o <<"MUQ3">>)), "MUQ3", "NOTA_37_MUQ3",
                     "Aplicada a Nota 37 do Anexo III da LC 275/2025: prevalece MUQ3; demais frentes e parametros podem observar as macrozonas incidentes.")
    ELSE \* 2.b) axis / semi-axis deduced from the frontage streets
         RegraClassificada(
             ComZonasDeduzidas(
                 zonas_unicas,
                 SelectSeq([i \in 1..Len(testadas_por_logradouro) |->
                               _zona_por_logradouro(testadas_por_logradouro[i])],
                           LAMBDA z : z # None /\ z # "")),
             areas_por_zona)

\* aplicar_regra_sobreposicao; testadas_por_logradouro is read through keys()
\* only and is given as the list of its keys
aplicar_regra_sobreposicao(zonas, areas_por_zona, testadas_por_logradouro, nota10_ativada, nota37_ativada) ==
    RegraDasZonasUnicas(sorted(SetDe(zonas)), areas_por_zona, testadas_por_logradouro,
                        nota10_ativada, nota37_ativada)

(***************************************************************************)
(* The requests of the model: what a caller can hand to the resolver.      *)
(***************************************************************************)
\* zone codes of the zoning layer: Special, Axis, UrbanMacro,
\* EnvironmentalMacro and Ordinary ones
CodigosZona ==
    {"ZE1", "ZE2", "EU1", "EU2", "MUQ2", "MUQ3", "MUPA1", "MRO", "ZR1", "ZR2"}

\* incident areas, in square metres
AreasDom == {300, 500}

\* lists of distinct codes, of length n
RECURSIVE ListasDe(_, _)
ListasDe(S, n) ==
    IF n = 0 THEN {<< >>}
    ELSE UNION {{Append(l, c) : c \in S \ Range(l)} : l \in ListasDe(S, n - 1)}

ListasAte(S, n) == UNION {ListasDe(S, k) : k \in 0..n}

\* ResultadoZoneamentoGeom as calcular_zoneamento_incidente returns it: the
\* incident codes, sorted, and the (positive) incident area of each
ResultadosGeom ==
    UNION {{[zonas |-> l, areas_por_zona |-> a] : a \in [Range(l) -> AreasDom]}
           : l \in {x \in ListasAte(CodigosZona, MaxZonas) : x = sorted(x)}}

\* ResultadoZoneamento: the raw intersection (best feature) and its metadata
ResultadosZoneamento ==
    [zona : {None, "EU2"}, macrozona : {None},
     eixos : {<< >>, <<"EU1">>}, especiais : {<< >>, <<"ZE1">>}]

\* ParametrosZona of one code, as carregar_parametros_de_arquivo builds it
\* (numbers scaled by 100; an absent index is << >>)
ParametrosZona(codigo) ==
    [codigo |-> codigo, CA_min |-> << >>, CA_bas |-> <<100>>, CA_max |-> <<200>>,
     Tperm |-> <<20>>, Tocup |-> <<60>>, Npav_bas |-> <<2>>, Npav_max |-> <<4>>,
     Gab_bas |-> << >>, Gab_max |-> <<1500>>]

\* the parameter table of the resolver instance: some codes have parameters
TabelaParametros ==
    [c \in {"ZEOT2", "ZE1", "EU1", "MUQ2", "MUQ3"} |-> ParametrosZona(c)]

\* ZonaResolvida(): the dataclass defaults
ZonaResolvidaPadrao ==
    [zonas_aplicadas |-> << >>, notas_ativas |-> << >>, tipo_regra |-> "NAO_DEFINIDA",
     resumo |-> << >>, observacoes |-> << >>, macrozona |-> None, eixos |-> << >>,
     especiais |-> << >>, zona_principal |-> None, zonas_incidentes |-> << >>,
     parametros |-> << >>, motivo |-> ""]

\* the permutations of a list
Permutacoes(l) ==
    {p \in [1..Len(l) -> Range(l)] : \A i, j \in 1..Len(l) : i # j => p[i] # p[j]}

(***************************************************************************)
(* dominio/motores/motor_analise_lote.py                                   *)
(***************************************************************************)
\* the names motor_analise_lote.py binds at module level: its imports, its
\* classes and its function
NomesDoModulo ==
    {"dataclass", "Optional", "QgsGeometry", "ZoneamentoResolvedor", "ZonaResolvida",
     "ResultadoZoneamento", "intersecao_zoneamento", "intersecao_app", "ResultadoAPP",
     "intersecao_risco", "ResultadoRisco", "calcular_zoneamento_incidente",
     "ResultadoZoneamentoGeom", "obter_camada", "calcular_testadas_e_logradouros",
     "ResultadoTestadas", "DEFAULT_MAX_DIST_TESTADA_M", "analisar_inclinacao_terreno",
     "ResultadoInclinacao", "avaliar_edificacao_na_zona", "ResultadoAvaliacaoZona",
     "CenarioEdificacao", "ResultadoAnaliseLote", "analisar_lote", "MotorAnaliseLote"}

\* the parameters of analisar_lote: bound from the call on
ParametrosAnalisarLote ==
    {"geom_lote", "cenario", "caminho_parametros_zoneamento", "nota10_confirmada",
     "max_dist_testada_m"}

\* reading a name inside analisar_lote: a local, else a name of the module;
\* any other name raises NameError
NomeLigado(nome, frame) == nome \in DOMAIN frame \/ nome \in NomesDoModulo

\* step 2.3: the frontage streets of Notes 10 and 37, by name
FrenteNota(res_testadas, padrao) ==
    /\ res_testadas # << >>
    /\ \E i \in 1..Len(res_testadas[1].testadas_por_logradouro) :
          Contem(Strip(Lower(Chars(res_testadas[1].testadas_por_logradouro[i]))),
                 Chars(padrao))

\* the last street of Note 10 among the keys, or None
NomeViaNota10(res_testadas) ==
    IF ~FrenteNota(res_testadas, "sebastião manoel coelho") THEN None
    ELSE LET ks == res_testadas[1].testadas_por_logradouro
             achados == {i \in 1..Len(ks) :
                            Contem(Strip(Lower(Chars(ks[i]))),
                                   Chars("sebastião manoel coelho"))}
         IN  ks[CHOOSE i \in achados : \A j \in achados : j <= i]

\* step 3.1: the call of resolvedor.resolver inside try / except Exception.
\* Its keyword arguments read the names nota10_ativada and nota37_ativada;
\* a NameError, like any exception of the call, leaves zona_resolvida None.
ResolverNoLote(frame) ==
    IF frame.res_geom = << >> THEN << >>
    ELSE IF ~(NomeLigado("nota10_ativada", frame) /\ NomeLigado("nota37_ativada", frame))
    THEN << >>
    ELSE <<resolver(TabelaParametros,
                    [zona |-> frame.res_zon.zona, macrozona |-> frame.res_zon.macrozona,
                     eixos |-> frame.res_zon.eixos, especiais |-> frame.res_zon.especiais],
                    frame.res_geom[1],
                    frame["nota10_ativada"], frame["nota37_ativada"])>>

\* step 3.2: the messages of the resolver and the raw zone aligned to the
\* reference zone
IntegrarMensagens(res_zon, zona_resolvida) ==
    IF zona_resolvida = << >> THEN res_zon
    ELSE LET z == zona_resolvida[1]
             m1 == IF z.notas_ativas # << >>
                   THEN <<"Notas do Anexo III aplicadas">> ELSE << >>
             m2 == IF z.motivo # "" THEN <<z.motivo>> ELSE << >>
             m3 == IF z.tipo_regra # "" /\ z.tipo_regra # "NAO_DEFINIDA"
                   THEN <<"Regime de aplicacao definido pela regra">> ELSE << >>
         IN  [res_zon EXCEPT
                !.mensagens = @ \o m1 \o m2 \o m3,
                !.zona = IF z.zona_principal # None /\ z.zona_principal # ""
                         THEN z.zona_principal ELSE @]

\* there is a reference zone to evaluate the indices in
TemZonaDeReferencia(zona_resolvida) ==
    /\ zona_resolvida # << >>
    /\ zona_resolvida[1].zona_principal # None
    /\ zona_resolvida[1].zona_principal # ""

\* the slope result analisar_lote builds itself when the project has no
\* slope layer: six bands of fixed shares of the lot area (areas in hundredths
\* of a square metre, percentages in hundredths of a percent)
InclinacaoDeExemplo(area_lote_m2) ==
    [faixas |-> << [faixa |-> "<= 3", area_m2 |-> area_lote_m2 * 40, percentual |-> 4000, app |-> FALSE],
                   [faixa |-> "3 - 8", area_m2 |-> area_lote_m2 * 25, percentual |-> 2500, app |-> FALSE],
                   [faixa |-> "8 - 15", area_m2 |-> area_lote_m2 * 15, percentual |-> 1500, app |-> FALSE],
                   [faixa |-> "15 - 30", area_m2 |-> area_lote_m2 * 10, percentual |-> 1000, app |-> FALSE],
                   [faixa |-> "30 - 45", area_m2 |-> area_lote_m2 * 7, percentual |-> 700, app |-> FALSE],
                   [faixa |-> "> 45 (APP)", area_m2 |-> area_lote_m2 * 3, percentual |-> 300, app |-> TRUE] >>,
     area_total_m2 |-> area_lote_m2 * 100,
     area_app_inclinacao_m2 |-> area_lote_m2 * 3,
     percentual_app_inclinacao |-> 300,
     mensagens |-> <<"Dados de exemplo - Camada de inclinacao nao encontrada no projeto">>,
     tem_app_por_inclinacao |-> area_lote_m2 * 3 > 0,
     estatisticas |-> << >>]

\* what the project holds for one request
\*   geom_vazia   : geom_lote is None or empty
\*   camadas      : the layer obter_camada finds under each key; << >> is None
\*   res_zon      : the answer of intersecao_zoneamento
\*   decomposicao : the answer of calcular_zoneamento_incidente, << >> when it raises
\*   testadas     : the keys of testadas_por_logradouro in the answer of
\*                  calcular_testadas_e_logradouros, << >> when it raises
\*   parametros_legiveis : carregar_parametros_de_arquivo can load the file
\*                  named by caminho_parametros_zoneamento (it exists and
\*                  holds a table the loader accepts)
\*   inclinacao   : the slope raster behind the layer, if there is one: an
\*                  invalid one, one without and one with a pixel above 45
\*                  degrees; "erro" when analisar_inclinacao_terreno raises
Mundos ==
    [geom_vazia : BOOLEAN,
     camadas : [{"zoneamento", "lotes", "app_inclinacao"} -> {<< >>, <<"camada">>}],
     res_zon : {[zona |-> z, macrozona |-> None, eixos |-> << >>, especiais |-> << >>,
                 mensagens |-> << >>] : z \in {None, "MUQ2"}},
     decomposicao : {<< >>,
                     <<[zonas |-> << >>, areas_por_zona |-> << >>]>>,
                     <<[zonas |-> <<"MUQ2">>, areas_por_zona |-> [z \in {"MUQ2"} |-> 500]]>>,
                     <<[zonas |-> <<"MUQ2", "ZE1">>,
                        areas_por_zona |-> [z \in {"MUQ2", "ZE1"} |->
                                               IF z = "ZE1" THEN 500 ELSE 300]]>>},
     testadas : {<< >>, << << >> >>, << <<"Rua A">> >>, << <<"Rua Lúcio Joaquim Mendes">> >>,
                 << <<"Rua Sebastião Manoel Coelho">> >>},
     parametros_legiveis : BOOLEAN,
     inclinacao : {"erro", "invalida", "sem_app", "com_app"},
     nota10_confirmada : BOOLEAN,
     area_lote_m2 : {0, 500}]

\* the zones and areas handed to aplicar_regra_sobreposicao
CodigosRegra == {"ZE1", "ZE2", "EU1", "MUQ2", "MUQ3", "MUO", "MUPA1", "ZR1"}

DecomposicoesRegra ==
    UNION {{[zonas |-> l, areas_por_zona |-> a] : a \in [Range(l) -> AreasDom]}
           : l \in {x \in ListasAte(CodigosRegra, MaxZonas) : x = sorted(x)}}

\* the keys of testadas_por_logradouro, in insertion order
TestadasPorLogradouro ==
    {<< >>, <<"Rua A">>, <<"Rua Lúcio Joaquim Mendes">>, <<"Av Governador Celso Ramos">>,
     <<"Rua São Paulo">>, <<"Rua A", "Av Governador Celso Ramos">>}

\* no call of aplicar_regra_sobreposicao yet
ResultadoRegraPadrao ==
    ResultadoRegraSobreposicao(<< >>, None, "NAO_DEFINIDA", Parte("", << >>),
                               << >>, << >>, << >>)

(***************************************************************************)
(* dominio/regras/regras_zoneamento.py                                     *)
(*                                                                         *)
(* Units of the evaluation.  The lot area is in whole square metres; the   *)
(* built, footprint and permeable areas are in millionths of a square      *)
(* metre; CA_min, CA_max, Tocup and Tperm are in millionths; heights are   *)
(* in millimetres.  With these units area / area_lote_m2 is the rational   *)
(* area_u / lote counted in millionths, and every comparison of the code   *)
(* is made exactly, multiplied through by the (positive) lot area.         *)
(***************************************************************************)
\* the tolerance 1e-6 of the index comparisons, in millionths
TOLERANCIA_INDICE == 1

\* the tolerance 0.01 m of the height comparison, in millimetres
TOLERANCIA_GABARITO == 10

\* f"{x:.2f}" of an index x = area_u / lote: x in hundredths
Centesimos(area_u, lote) == ((area_u \div lote) + 5000) \div 10000

\* f"{x:.2%}" of a rate x = area_u / lote: x in hundredths of a percent
CentesimosDePorcento(area_u, lote) == ((area_u \div lote) + 50) \div 100

\* one entry of pendencias: the wording of the f-string and what it formats
\* into it (the zone, the realised value, the limit)
Pendencia(frase, zona, real, limite) ==
    [frase |-> frase, zona |-> zona, real |-> real, limite |-> limite]

\* if area_lote_m2 <= 0: raise ValueError
AreaInvalida_SoZero(area_lote_m2) == area_lote_m2 = 0

AreaInvalida(area_lote_m2) == area_lote_m2 <= 0

\* the CA block: ca_real against CA_min and CA_max
PendenciasCA_SemTolerancia(zona, parametros, lote, construida) ==
    IF construida = << >> THEN << >>
    ELSE (IF parametros.CA_min # << >>
             /\ construida[1] < (parametros.CA_min[1] - TOLERANCIA_INDICE) * lote
          THEN <<Pendencia("CA real inferior ao CA mínimo", zona,
                           Centesimos(construida[1], lote),
                           Centesimos(parametros.CA_min[1], 1))>>
          ELSE << >>)
         \o
         (IF parametros.CA_max # << >> /\ construida[1] > parametros.CA_max[1] * lote
          THEN <<Pendencia("CA real superior ao CA máximo", zona,
                           Centesimos(construida[1], lote),
                           Centesimos(parametros.CA_max[1], 1))>>
          ELSE << >>)

PendenciasCA(zona, parametros, lote, construida) ==
    IF construida = << >> THEN << >>
    ELSE (IF parametros.CA_min # << >>
             /\ construida[1] < (parametros.CA_min[1] - TOLERANCIA_INDICE) * lote
          THEN <<Pendencia("CA real inferior ao CA mínimo", zona,
                           Centesimos(construida[1], lote),
                           Centesimos(parametros.CA_min[1], 1))>>
          ELSE << >>)
         \o
         (IF parametros.CA_max # << >>
             /\ construida[1] > (parametros.CA_max[1] + TOLERANCIA_INDICE) * lote
          THEN <<Pendencia("CA real superior ao CA máximo", zona,
                           Centesimos(construida[1], lote),
                           Centesimos(parametros.CA_max[1], 1))>>
          ELSE << >>)

\* the occupancy block: tocup_real against Tocup
PendenciasTocup(zona, parametros, lote, ocupada) ==
    IF ocupada # << >> /\ parametros.Tocup # << >>
       /\ ocupada[1] > (parametros.Tocup[1] + TOLERANCIA_INDICE) * lote
    THEN <<Pendencia("Taxa de ocupação real superior à máxima", zona,
                     CentesimosDePorcento(ocupada[1], lote),
                     CentesimosDePorcento(parametros.Tocup[1], 1))>>
    ELSE << >>

\* the permeability block: tperm_real + 1e-6 < Tperm
PendenciasTperm(zona, parametros, lote, permeavel) ==
    IF permeavel # << >> /\ parametros.Tperm # << >>
       /\ permeavel[1] + TOLERANCIA_INDICE * lote < parametros.Tperm[1] * lote
    THEN <<Pendencia("Taxa de permeabilidade real inferior à mínima", zona,
                     CentesimosDePorcento(permeavel[1], lote),
                     CentesimosDePorcento(parametros.Tperm[1], 1))>>
    ELSE << >>

\* the storeys block: numero_pavimentos against Npav_max
PendenciasNpav(zona, parametros, pavimentos) ==
    IF pavimentos # << >> /\ parametros.Npav_max # << >>
       /\ pavimentos[1] > parametros.Npav_max[1]
    THEN <<Pendencia("Número de pavimentos superior ao máximo", zona,
                     pavimentos[1], parametros.Npav_max[1])>>
    ELSE << >>

\* the height block: altura_maxima_m against Gab_max + 0.01
PendenciasGab(zona, parametros, altura) ==
    IF altura # << >> /\ parametros.Gab_max # << >>
       /\ altura[1] > parametros.Gab_max[1] + TOLERANCIA_GABARITO
    THEN <<Pendencia("Altura máxima superior ao gabarito máximo", zona,
                     (altura[1] + 5) \div 10, (parametros.Gab_max[1] + 5) \div 10)>>
    ELSE << >>

\* the else branches: one entry of observacoes for each field that is None
OBS_CA == "CA não avaliado: área construída total não informada."
OBS_TOCUP == "Taxa de ocupação não avaliada: área ocupada em projeção não informada."
OBS_TPERM == "Taxa de permeabilidade não avaliada: área permeável não informada."
OBS_NPAV == "Número de pavimentos não informado; não foi possível avaliar limite máximo."
OBS_GAB == "Altura máxima não informada; não foi possível avaliar gabarito."

Observacao(campo, texto) == IF campo = << >> THEN <<texto>> ELSE << >>

\* valores_calculados, as the list of its items in insertion order; a rate is
\* kept exact, as <<area_u, lote>>
ValorDeTaxa(campo, chave, lote) ==
    IF campo = << >> THEN << >> ELSE << <<chave, <<campo[1], lote>> >> >>

ValorInformado(campo, chave) ==
    IF campo = << >> THEN << >> ELSE << <<chave, campo[1]>> >>

\* conforme = len(pendencias) == 0
Conforme_Sempre(pendencias) == TRUE

Conforme(pendencias) == Len(pendencias) = 0

ResultadoAvaliacaoZona(zona, parametros, pendencias, observacoes, valores_calculados) ==
    [zona |-> zona, parametros |-> parametros, conforme |-> Conforme(pendencias),
     pendencias |-> pendencias, observacoes |-> observacoes,
     valores_calculados |-> valores_calculados]

\* observacoes with the entry of one omitted field left out
Observacoes_SemGabarito(construida, ocupada, permeavel, altura, pavimentos) ==
    Observacao(construida, OBS_CA) \o Observacao(ocupada, OBS_TOCUP)
    \o Observacao(permeavel, OBS_TPERM) \o Observacao(pavimentos, OBS_NPAV)

Observacoes(construida, ocupada, permeavel, altura, pavimentos) ==
    Observacao(construida, OBS_CA) \o Observacao(ocupada, OBS_TOCUP)
    \o Observacao(permeavel, OBS_TPERM) \o Observacao(pavimentos, OBS_NPAV)
    \o Observacao(altura, OBS_GAB)

\* avaliar_edificacao_na_zona for a positive lot area; the parameters follow
\* the order of the signature (altura_maxima_m before numero_pavimentos), the
\* blocks the order of the body (storeys before height)
avaliar_edificacao_na_zona(zona, parametros, area_lote_m2, area_construida_total_m2, area_ocupada_projecao_m2, area_permeavel_m2, altura_maxima_m, numero_pavimentos) ==
    ResultadoAvaliacaoZona(
        zona, parametros,
        PendenciasCA(zona, parametros, area_lote_m2, area_construida_total_m2)
        \o PendenciasTocup(zona, parametros, area_lote_m2, area_ocupada_projecao_m2)
        \o PendenciasTperm(zona, parametros, area_lote_m2, area_permeavel_m2)
        \o PendenciasNpav(zona, parametros, numero_pavimentos)
        \o PendenciasGab(zona, parametros, altura_maxima_m),
        Observacoes(area_construida_total_m2, area_ocupada_projecao_m2,
                    area_permeavel_m2, altura_maxima_m, numero_pavimentos),
        ValorDeTaxa(area_construida_total_m2, "CA_real", area_lote_m2)
        \o ValorDeTaxa(area_ocupada_projecao_m2, "Tocup_real", area_lote_m2)
        \o ValorDeTaxa(area_permeavel_m2, "Tperm_real", area_lote_m2)
        \o ValorInformado(numero_pavimentos, "Npav_real")
        \o ValorInformado(altura_maxima_m, "Gab_real"))

\* the zone parameters handed to the evaluation: each limit absent or set
ParametrosDeAvaliacao ==
    [codigo : {"MUQ2"}, CA_min : {<< >>, <<500000>>, <<2000000>>},
     CA_bas : {<<1000000>>}, CA_max : {<< >>, <<1000000>>},
     Tperm : {<< >>, <<200000>>}, Tocup : {<< >>, <<600000>>},
     Npav_bas : {<<2>>}, Npav_max : {<< >>, <<4>>},
     Gab_bas : {<< >>}, Gab_max : {<< >>, <<15000>>}]

\* the scenarios: each optional field omitted, within its limit, or beyond it
AreasDeLote == {0 - 100, 0, 500}
AreasConstruidas == {<< >>, <<100000000>>, <<500000000>>, <<500000500>>, <<500000501>>, <<600000000>>}
AreasOcupadas == {<< >>, <<300000000>>, <<400000000>>}
AreasPermeaveis == {<< >>, <<50000000>>, <<100000000>>}
Alturas == {<< >>, <<15010>>, <<15011>>}
Pavimentos == {<< >>, <<4>>, <<5>>}

(***************************************************************************)
(* infraestrutura/espacial/intersecao_inclinacao.py                        *)
(*                                                                         *)
(* Units of the slope analysis.  A pixel value is in tenths of a degree.   *)
(* The area of a pixel and every area before rounding are in               *)
(* ten-thousandths of a square metre; round(x, 2) of an area is in         *)
(* hundredths of a square metre and round(x, 2) of a percentage in         *)
(* hundredths of a percent.                                                *)
(***************************************************************************)
\* round(num / den, 0) for num >= 0, den > 0, ties to the even neighbour
ArredondarRazao(num, den) ==
    IF 2 * (num % den) < den THEN num \div den
    ELSE IF 2 * (num % den) > den THEN (num \div den) + 1
    ELSE IF (num \div den) % 2 = 0 THEN num \div den
    ELSE (num \div den) + 1

\* round(area, 2) of an area in ten-thousandths of a square metre
round2(area) == ArredondarRazao(area, 100)

\* classificar_inclinacao(valor_graus): the id of the band
classificar_inclinacao_LimitesAbertos(valor_graus) ==
    IF valor_graus < 30 THEN 1
    ELSE IF valor_graus < 80 THEN 2
    ELSE IF valor_graus < 150 THEN 3
    ELSE IF valor_graus < 300 THEN 4
    ELSE IF valor_graus < 450 THEN 5
    ELSE 6

classificar_inclinacao(valor_graus) ==
    IF valor_graus <= 30 THEN 1
    ELSE IF valor_graus <= 80 THEN 2
    ELSE IF valor_graus <= 150 THEN 3
    ELSE IF valor_graus <= 300 THEN 4
    ELSE IF valor_graus <= 450 THEN 5
    ELSE 6

\* obter_categorias_completas(): label and app of each band, by id
obter_categorias_completas ==
    << [id |-> 1, label |-> "<= 3", app |-> FALSE],
       [id |-> 2, label |-> "3 - 8", app |-> FALSE],
       [id |-> 3, label |-> "8 - 15", app |-> FALSE],
       [id |-> 4, label |-> "15 - 30", app |-> FALSE],
       [id |-> 5, label |-> "30 - 45", app |-> FALSE],
       [id |-> 6, label |-> "> 45 (APP)", app |-> TRUE] >>

\* _resultado_erro_objeto(mensagem)
_resultado_erro_objeto(mensagem) ==
    [faixas |-> << >>, area_total_m2 |-> 0, area_app_inclinacao_m2 |-> 0,
     percentual_app_inclinacao |-> 0, mensagens |-> <<mensagem>>,
     tem_app_por_inclinacao |-> FALSE, estatisticas |-> << >>]

\* step 7, the test of one pixel of the block: its centre is in the parcel,
\* its value is not within 0.0001 of the no-data value and is in 0..90
PixelValido_SemNoData(p, nodata) == p.dentro /\ 0 <= p.valor /\ p.valor <= 900

PixelValido(p, nodata) ==
    /\ p.dentro
    /\ ~(nodata # << >> /\ p.valor = nodata[1])
    /\ 0 <= p.valor /\ p.valor <= 900

\* the pixels step 7 counts, in the order of the two loops
PixelsValidos(pixels, nodata) == SelectSeq(pixels, LAMBDA p : PixelValido(p, nodata))

\* contadores[cat_id] after the loops
Contador(validos, cat_id) ==
    Len(SelectSeq(validos, LAMBDA p : classificar_inclinacao(p.valor) = cat_id))

\* step 8: the entry of one band, if any pixel fell in it
Faixa(info, count, pixels_validos, area_pixel_m2) ==
    IF count > 0
    THEN <<[faixa |-> info.label, area_m2 |-> round2(count * area_pixel_m2),
            percentual |-> ArredondarRazao(count * 10000, pixels_validos),
            app |-> info.app, count |-> count]>>
    ELSE << >>

\* resultados: the bands in the order of the ids, which is the order of
\* ordem_faixas the sort keeps
RECURSIVE Faixas(_, _, _)
Faixas(categorias, validos, area_pixel_m2) ==
    IF categorias = << >> THEN << >>
    ELSE Faixa(Head(categorias), Contador(validos, Head(categorias).id),
               Len(validos), area_pixel_m2)
         \o Faixas(Tail(categorias), validos, area_pixel_m2)

\* step 9: the first message, from the lot area given for validation
MensagemDeArea(area_total_m2, area_lote_m2) ==
    IF area_lote_m2 # << >> /\ area_lote_m2[1] > 0
    THEN IF (IF area_total_m2 >= area_lote_m2[1] THEN area_total_m2 - area_lote_m2[1]
             ELSE area_lote_m2[1] - area_total_m2) * 100 > 20 * area_lote_m2[1]
         THEN "Atenção: Diferença entre área analisada e área do lote"
         ELSE "Área analisada (coerente)"
    ELSE "Área analisada"

\* steps 9 and 10: mensagens
MensagensDaAnalise(area_total_m2, area_app_m2, area_lote_m2) ==
    <<MensagemDeArea(area_total_m2, area_lote_m2), "Raster analisado", "Resolução",
      "Pixels válidos analisados">>
    \o (IF area_app_m2 > 0 THEN <<"APP por inclinação (>45°)">> ELSE << >>)

\* steps 8 to 12 for the pixels counted: the ResultadoInclinacao returned
\* (in area_app_m2 / area_total_m2 * 100 the area of a pixel cancels)
ResultadoDosPixels_AppDeTudo(validos, pixels_totais, area_pixel_m2, area_app_m2, area_lote_m2) ==
    [faixas |-> Faixas(obter_categorias_completas, validos, area_pixel_m2),
     area_total_m2 |-> round2(Len(validos) * area_pixel_m2),
     area_app_inclinacao_m2 |-> round2(Len(validos) * area_pixel_m2),
     percentual_app_inclinacao |-> 10000,
     mensagens |-> MensagensDaAnalise(Len(validos) * area_pixel_m2, area_app_m2, area_lote_m2),
     tem_app_por_inclinacao |-> Len(validos) * area_pixel_m2 > 0,
     estatisticas |-> <<[pixels_totais |-> pixels_totais, pixels_validos |-> Len(validos),
                         area_pixel_m2 |-> area_pixel_m2]>>]

ResultadoDosPixels(validos, pixels_totais, area_pixel_m2, area_app_m2, area_lote_m2) ==
    [faixas |-> Faixas(obter_categorias_completas, validos, area_pixel_m2),
     area_total_m2 |-> round2(Len(validos) * area_pixel_m2),
     area_app_inclinacao_m2 |-> round2(area_app_m2),
     percentual_app_inclinacao |->
         ArredondarRazao((area_app_m2 \div area_pixel_m2) * 10000, Len(validos)),
     mensagens |-> MensagensDaAnalise(Len(validos) * area_pixel_m2, area_app_m2, area_lote_m2),
     tem_app_por_inclinacao |-> area_app_m2 > 0,
     estatisticas |-> <<[pixels_totais |-> pixels_totais, pixels_validos |-> Len(validos),
                         area_pixel_m2 |-> area_pixel_m2]>>]

\* step 7's outcome: no valid pixel is an error result, else steps 8 to 12
AnaliseDosPixels(validos, pixels_totais, area_pixel_m2, area_lote_m2) ==
    IF Len(validos) = 0 THEN _resultado_erro_objeto("Nenhum pixel válido dentro do lote")
    ELSE ResultadoDosPixels(validos, pixels_totais, area_pixel_m2,
                            Contador(validos, 6) * area_pixel_m2, area_lote_m2)

\* analisar_inclinacao_terreno(lote_geom, camada_inclinacao, area_lote_m2).
\* raster is what the layer and the parcel answer:
\*   camada     : "None", "invalida" (isValid() is False) or "valida"
\*   lote_vazio : lote_geom.isEmpty()
\*   cobre      : the extent of the raster meets the bounding box of the parcel
\*   bloco      : "lido", "None" (block or block.data() is None), or "levanta"
\*                (provider.block raises)
\*   nodata     : << >>, or the no-data value of band 1
\*   area_pixel_m2 : abs(x_res * y_res)
\*   pixels     : the cells of the block, row by row: whether the centre is
\*                inside the parcel, and block.value(row, col)
\* Every exception inside the try is caught and answered with an error result.
analisar_inclinacao_terreno(raster, area_lote_m2) ==
    IF raster.camada = "None"
    THEN _resultado_erro_objeto("Erro técnico na análise")
    ELSE IF raster.camada = "invalida"
    THEN _resultado_erro_objeto("Camada de inclinação inválida")
    ELSE IF raster.lote_vazio THEN _resultado_erro_objeto("Geometria do lote vazia")
    ELSE IF ~raster.cobre THEN _resultado_erro_objeto("Raster não cobre a área do lote")
    ELSE IF raster.bloco = "levanta" THEN _resultado_erro_objeto("Erro técnico na análise")
    ELSE IF raster.bloco = "None"
    THEN _resultado_erro_objeto("Não foi possível ler dados do raster")
    ELSE AnaliseDosPixels(PixelsValidos(raster.pixels, raster.nodata),
                          Len(SelectSeq(raster.pixels, LAMBDA p : p.dentro)),
                          raster.area_pixel_m2, area_lote_m2)

\* the value a raster marks no-data with, and the values of the model: one
\* below 0, the two sides of each band limit, one above 90
NODATA == 0 - 99990

ValoresDePixel ==
    {NODATA, 0 - 10, 0, 30, 31, 80, 81, 150, 151, 300, 301, 450, 451, 900, 901}

\* a cell of the block; the value of a cell outside the parcel is never read
Pixels ==
    {[dentro |-> TRUE, valor |-> v] : v \in ValoresDePixel}
    \cup {[dentro |-> FALSE, valor |-> 0]}

\* blocks of 1 to MaxPixels cells (cols and rows are at least 1)
Blocos == UNION {[1..n -> Pixels] : n \in 1..MaxPixels}

\* a raster that is read, and the rasters that are not
RasterLido(nodata, area_pixel_m2, pixels) ==
    [camada |-> "valida", lote_vazio |-> FALSE, cobre |-> TRUE, bloco |-> "lido",
     nodata |-> nodata, area_pixel_m2 |-> area_pixel_m2, pixels |-> pixels]

RastersIlegiveis ==
    {[RasterLido(<<NODATA>>, 250000, <<[dentro |-> TRUE, valor |-> 451]>>)
         EXCEPT !.camada = c, !.lote_vazio = v, !.cobre = k, !.bloco = b] :
       c \in {"None", "invalida", "valida"}, v \in BOOLEAN, k \in BOOLEAN,
       b \in {"lido", "None", "levanta"}}
    \ {RasterLido(<<NODATA>>, 250000, <<[dentro |-> TRUE, valor |-> 451]>>)}

\* sourceNoDataValue(1): none, one outside 0..90, one inside
ValoresNoData == {<< >>, <<NODATA>>, <<0>>}

\* pixel areas: a 0.58 m and a 5 m resolution
AreasDePixel == {3364, 250000}

Rasters ==
    RastersIlegiveis
    \cup {RasterLido(nd, a, px) : nd \in ValoresNoData, a \in AreasDePixel, px \in Blocos}

\* area_lote_m2 of the call: None, the area of two small pixels, 500 m2
AreasDeLoteDaAnalise == {<< >>, <<6728>>, <<5000000>>}

(***************************************************************************)
(* infraestrutura/espacial/testadas.py                                     *)
(*                                                                         *)
(* A point is <<x, y>> in metres; a ring is the list of its vertices, the  *)
(* first repeated at the end; a polygon is the list of its rings, the      *)
(* outer one first.  What the layers answer about one edge of the parcel   *)
(* (its surroundings) is given with the call:                              *)
(*   normal   : _normal_e_ponto_fora finds the outward normal              *)
(*   vizinhos : the parcels of the layer that contain the outward probe    *)
(*              point, in index order: the value of the owner field of     *)
(*              each, << >> when it is None                                *)
(*   vias     : the roads that intersect the outward ray of max_dist_m, in *)
(*              index order: the distance to the midpoint and the value of *)
(*              the name field, << >> when it is None                      *)
(* A layer is "None", or a vector layer "sem_campo" / "com_campo" (without *)
(* / with the owner field, or the name field).                             *)
(***************************************************************************)
\* seg.length() of the segment between two points
Distancia(p1, p2) ==
    CHOOSE d \in 0..100 :
        d * d = (p2[1] - p1[1]) * (p2[1] - p1[1]) + (p2[2] - p1[2]) * (p2[2] - p1[2])

\* the segments of one ring: for i in range(n - 1): (ring[i], ring[i + 1])
SegmentosDoAnel(ring) == [i \in 1..(Len(ring) - 1) |-> <<ring[i], ring[i + 1]>>]

\* the segments of the rings of one polygon, ring after ring
RECURSIVE SegmentosDoPoligono(_)
SegmentosDoPoligono(poly) ==
    IF poly = << >> THEN << >>
    ELSE SegmentosDoAnel(Head(poly)) \o SegmentosDoPoligono(Tail(poly))

RECURSIVE SegmentosDosPoligonos(_)
SegmentosDosPoligonos(mpol) ==
    IF mpol = << >> THEN << >>
    ELSE SegmentosDoPoligono(Head(mpol)) \o SegmentosDosPoligonos(Tail(mpol))

\* the same, the inner rings left out
RECURSIVE SegmentosExternos(_)
SegmentosExternos(mpol) ==
    IF mpol = << >> THEN << >>
    ELSE SegmentosDoAnel(Head(Head(mpol))) \o SegmentosExternos(Tail(mpol))

_segmentar_borda_lote_SoExterno(lote_geom) ==
    IF lote_geom = << >> THEN << >> ELSE SegmentosExternos(lote_geom.partes)

\* _segmentar_borda_lote(lote_geom): asMultiPolygon() of a multipart geometry
\* is its parts, asPolygon() of a single one its only part
_segmentar_borda_lote(lote_geom) ==
    IF lote_geom = << >> THEN << >> ELSE SegmentosDosPoligonos(lote_geom.partes)

\* _obter_confrontante_para_ponto: str(val) of the first parcel containing
\* the point whose owner value is not None
RECURSIVE _obter_confrontante_para_ponto(_)
_obter_confrontante_para_ponto(vizinhos) ==
    IF vizinhos = << >> THEN None
    ELSE IF Head(vizinhos) # << >> THEN Head(vizinhos)[1]
    ELSE _obter_confrontante_para_ponto(Tail(vizinhos))

\* the loop over candidatos: the first road at the smallest distance
MelhorVia(vias) ==
    vias[CHOOSE i \in 1..Len(vias) :
            /\ \A j \in 1..Len(vias) : vias[i].dist <= vias[j].dist
            /\ \A j \in 1..(i - 1) : vias[j].dist > vias[i].dist]

\* logradouro_atribuido of a segment with no parcel on its outer side
LogradouroDaVia_SemCamada(camada_logradouros, vias) ==
    IF vias # << >> /\ MelhorVia(vias).nome # << >>
    THEN MelhorVia(vias).nome[1]
    ELSE None

LogradouroDaVia(camada_logradouros, vias) ==
    IF camada_logradouros = "com_campo" /\ vias # << >> /\ MelhorVia(vias).nome # << >>
    THEN MelhorVia(vias).nome[1]
    ELSE None

\* SegmentoTestada(id_segmento, geom, comprimento_m, logradouro, tipo_limite, confrontante)
SegmentoTestada(id_segmento, geom, comprimento_m, logradouro, tipo_limite, confrontante) ==
    [id_segmento |-> id_segmento, geom |-> geom, comprimento_m |-> comprimento_m,
     logradouro |-> logradouro, tipo_limite |-> tipo_limite, confrontante |-> confrontante]

\* the body of the loop for one segment of positive length
ClassificarSegmento(idx_seg, seg, entorno, camada_lotes, camada_logradouros) ==
    IF ~entorno.normal
    THEN SegmentoTestada(idx_seg, seg, Distancia(seg[1], seg[2]), None, "DIVISA", None)
    ELSE IF camada_lotes # "None" /\ entorno.vizinhos # << >>
    THEN SegmentoTestada(idx_seg, seg, Distancia(seg[1], seg[2]), None, "DIVISA",
                         IF camada_lotes = "com_campo"
                         THEN _obter_confrontante_para_ponto(entorno.vizinhos)
                         ELSE None)
    ELSE SegmentoTestada(idx_seg, seg, Distancia(seg[1], seg[2]),
                         LogradouroDaVia(camada_logradouros, entorno.vias),
                         IF LogradouroDaVia(camada_logradouros, entorno.vias) \notin {None, ""}
                         THEN "TESTADA" ELSE "DIVISA",
                         None)

\* resultado_segmentos: the loop over enumerate(segmentos_geom, start=1),
\* which skips the segments of length 0
RECURSIVE ResultadoSegmentos(_, _, _, _, _)
ResultadoSegmentos(segmentos_geom, idx_seg, entornos, camada_lotes, camada_logradouros) ==
    IF idx_seg > Len(segmentos_geom) THEN << >>
    ELSE (IF Distancia(segmentos_geom[idx_seg][1], segmentos_geom[idx_seg][2]) <= 0
          THEN << >>
          ELSE <<ClassificarSegmento(idx_seg, segmentos_geom[idx_seg], entornos[idx_seg],
                                     camada_lotes, camada_logradouros)>>)
         \o ResultadoSegmentos(segmentos_geom, idx_seg + 1, entornos,
                               camada_lotes, camada_logradouros)

\* d[k] = v: the value is replaced, not added to
DictSomar_Substitui(d, k, v) ==
    IF \E i \in 1..Len(d) : d[i][1] = k
    THEN [i \in 1..Len(d) |-> IF d[i][1] = k THEN <<k, v>> ELSE d[i]]
    ELSE Append(d, <<k, v>>)

\* d[k] = d.get(k, 0.0) + v on a dict kept as the list of its items
DictSomar(d, k, v) ==
    IF \E i \in 1..Len(d) : d[i][1] = k
    THEN [i \in 1..Len(d) |-> IF d[i][1] = k THEN <<k, d[i][2] + v>> ELSE d[i]]
    ELSE Append(d, <<k, v>>)

\* testadas_por_logradouro after the segments of the list
RECURSIVE TestadasPorLogradouroDe(_, _)
TestadasPorLogradouroDe(segmentos, d) ==
    IF segmentos = << >> THEN d
    ELSE TestadasPorLogradouroDe(
             Tail(segmentos),
             IF Head(segmentos).logradouro \notin {None, ""}
             THEN DictSomar(d, Head(segmentos).logradouro, Head(segmentos).comprimento_m)
             ELSE d)

\* confrontantes_por_proprietario after the segments of the list
RECURSIVE ConfrontantesPorProprietarioDe(_, _)
ConfrontantesPorProprietarioDe(segmentos, d) ==
    IF segmentos = << >> THEN d
    ELSE ConfrontantesPorProprietarioDe(
             Tail(segmentos),
             IF Head(segmentos).tipo_limite = "DIVISA"
                /\ Head(segmentos).confrontante \notin {None, ""}
             THEN DictSomar(d, Head(segmentos).confrontante, Head(segmentos).comprimento_m)
             ELSE d)

\* ResultadoTestadas(segmentos, testadas_por_logradouro, confrontantes_por_proprietario)
ResultadoTestadas(segmentos) ==
    [segmentos |-> segmentos,
     testadas_por_logradouro |-> TestadasPorLogradouroDe(segmentos, << >>),
     confrontantes_por_proprietario |-> ConfrontantesPorProprietarioDe(segmentos, << >>)]

\* calcular_testadas_e_logradouros(lote_geom, camada_lotes, camada_logradouros,
\* max_dist_m); lote_geom None or empty is << >>
calcular_testadas_e_logradouros(lote_geom, camada_lotes, camada_logradouros, entornos) ==
    IF lote_geom = << >> THEN ResultadoTestadas(<< >>)
    ELSE ResultadoTestadas(ResultadoSegmentos(_segmentar_borda_lote(lote_geom), 1, entornos,
                                              camada_lotes, camada_logradouros))

\* the outer triangle of the model's parcels (sides of 30, 40 and 50 m), a
\* triangle inside it (a hole) and one beside it (a second part)
TrianguloExterno == << <<0, 0>>, <<30, 0>>, <<30, 40>>, <<0, 0>> >>

TrianguloInterno == << <<20, 10>>, <<26, 10>>, <<26, 18>>, <<20, 10>> >>

TrianguloAoLado == << <<40, 0>>, <<46, 0>>, <<46, 8>>, <<40, 0>> >>

\* a ring with one of its vertices written twice in a row
Repetir(ring, i) == SubSeq(ring, 1, i) \o SubSeq(ring, i, Len(ring))

\* the outer rings: the triangle as it is, and with its second vertex or
\* its closing vertex written twice (an edge of length 0)
AneisExternos == {TrianguloExterno, Repetir(TrianguloExterno, 2), Repetir(TrianguloExterno, 4)}

\* the parcels: a triangle, a triangle with a hole, a triangle and a second
\* part
LotesGeom ==
    UNION {{[multi |-> FALSE, partes |-> << <<r>> >>],
            [multi |-> FALSE, partes |-> << <<r, TrianguloInterno>> >>],
            [multi |-> TRUE, partes |-> << <<r>>, <<TrianguloAoLado>> >>]}
           : r \in AneisExternos}

\* the surroundings of an edge
Entorno(normal, vizinhos, vias) == [normal |-> normal, vizinhos |-> vizinhos, vias |-> vias]

Via(dist, nome) == [dist |-> dist, nome |-> nome]

Entornos ==
    {Entorno(FALSE, << >>, << >>),
     Entorno(TRUE, << >>, << >>),
     Entorno(TRUE, << <<"Ana">> >>, << >>),
     Entorno(TRUE, << <<"Ana">> >>, <<Via(5, <<"Rua A">>)>>),
     Entorno(TRUE, << << >>, <<"Bia">> >>, << >>),
     Entorno(TRUE, << >>, <<Via(5, <<"Rua A">>)>>),
     Entorno(TRUE, << >>, <<Via(5, <<"Rua A">>), Via(3, <<"Rua B">>)>>),
     Entorno(TRUE, << >>, <<Via(5, <<"">>)>>),
     Entorno(TRUE, << >>, <<Via(3, <<"">>), Via(5, <<"Rua A">>)>>)}

\* the surroundings of the edges of a second ring: all open, or all parcels
EntornosDoSegundoAnel == {Entorno(TRUE, << >>, << >>), Entorno(TRUE, << <<"Ana">> >>, << >>)}

\* the positions, in the list of segments, of the edges of positive length of
\* the first ring
ArestasDoPrimeiroAnel(lote_geom) ==
    {i \in 1..(Len(lote_geom.partes[1][1]) - 1) :
        lote_geom.partes[1][1][i] # lote_geom.partes[1][1][i + 1]}

\* the surroundings of every segment of a parcel: any of Entornos for each
\* edge of positive length of the first ring, one of EntornosDoSegundoAnel
\* for the second ring; an edge of length 0 has none that is read
EntornosDoLote(lote_geom) ==
    {[i \in 1..Len(_segmentar_borda_lote(lote_geom)) |->
         IF i \in ArestasDoPrimeiroAnel(lote_geom) THEN f[i]
         ELSE IF i < Len(lote_geom.partes[1][1]) THEN Entorno(FALSE, << >>, << >>)
         ELSE g] :
       f \in [ArestasDoPrimeiroAnel(lote_geom) -> Entornos], g \in EntornosDoSegundoAnel}

Camadas == {"None", "sem_campo", "com_campo"}

(***************************************************************************)
(* infraestrutura/espacial/zoneamento_lote.py                              *)
(*   a layer is << >> (None, or not a QgsVectorLayer) or a record with     *)
(*   campos (the names of its fields) and feicoes (its features); a        *)
(*   feature has geom ("vazia": None or empty, "fora": does not intersect  *)
(*   the parcel, "inter_vazia": intersects with an empty intersection,     *)
(*   "inter": intersects), area_inter (the area of the intersection, m2)   *)
(*   and atributos, the character sequence of str(value) per field; a      *)
(*   zone code here is a character sequence                                *)
(***************************************************************************)
CAMPOS_CODIGO_ZONA_CANDIDATOS ==
    <<"Zoneamento", "zoneamento", "ZONA", "zona", "ZONE", "zone",
      "CODIGO", "Codigo", "codigo", "COD_ZONA", "cod_zona">>

\* the for loop over the candidates: the first one that is a field
RECURSIVE PrimeiroCandidato(_, _)
PrimeiroCandidato(candidatos, nomes_campos) ==
    IF candidatos = << >> THEN << >>
    ELSE IF Em(Head(candidatos), nomes_campos) THEN <<Head(candidatos)>>
    ELSE PrimeiroCandidato(Tail(candidatos), nomes_campos)

\* detectar_campo_codigo_zona(camada_zoneamento, campo_forcado): << >> is None
detectar_campo_codigo_zona(camada_zoneamento, campo_forcado) ==
    IF camada_zoneamento = << >> THEN << >>
    ELSE IF campo_forcado # << >> /\ campo_forcado[1] # ""
            /\ Em(campo_forcado[1], camada_zoneamento[1].campos)
    THEN campo_forcado
    ELSE PrimeiroCandidato(CAMPOS_CODIGO_ZONA_CANDIDATOS, camada_zoneamento[1].campos)

\* a plausible slip: area_inter < 0 instead of <= 0
AreaDescartada_SoNegativa(area_inter) == area_inter < 0

\* if area_inter <= 0: continue
AreaDescartada(area_inter) == area_inter <= 0

\* whether the body of the loop reaches the accumulation for a feature
FeicaoContribui(feat, campo_codigo) ==
    /\ feat.geom = "inter"
    /\ ~AreaDescartada(feat.area_inter)
    /\ Strip(feat.atributos[campo_codigo]) # << >>

\* areas_por_zona after the loop over getFeatures(), as the list of its items
RECURSIVE AreasPorZonaDe(_, _, _)
AreasPorZonaDe(feicoes, campo_codigo, d) ==
    IF feicoes = << >> THEN d
    ELSE AreasPorZonaDe(
             Tail(feicoes), campo_codigo,
             IF FeicaoContribui(Head(feicoes), campo_codigo)
             THEN DictSomar(d, Strip(Head(feicoes).atributos[campo_codigo]),
                            Head(feicoes).area_inter)
             ELSE d)

\* sorted() of a list of character sequences
RECURSIVE InserirChars(_, _)
InserirChars(x, ord) ==
    IF ord = << >> THEN <<x>>
    ELSE IF StrMenor(x, Head(ord)) THEN <<x>> \o ord
         ELSE <<Head(ord)>> \o InserirChars(x, Tail(ord))

RECURSIVE OrdenarChars(_)
OrdenarChars(lista) ==
    IF lista = << >> THEN << >>
    ELSE InserirChars(Head(lista), OrdenarChars(Tail(lista)))

\* dict.keys() and dict.values() of a dict kept as the list of its items
DictKeys(d) == [i \in 1..Len(d) |-> d[i][1]]

DictValues(d) == [i \in 1..Len(d) |-> d[i][2]]

\* ResultadoZoneamentoGeom(zonas, areas_por_zona, area_total_zoneada,
\* percentuais); a percentage is kept in hundredths of a percent, truncated
ResultadoZoneamentoGeom(zonas, areas_por_zona, area_total_zoneada, percentuais) ==
    [zonas |-> zonas, areas_por_zona |-> areas_por_zona,
     area_total_zoneada |-> area_total_zoneada, percentuais |-> percentuais]

ResultadoZoneamentoVazio == ResultadoZoneamentoGeom(<< >>, << >>, 0, << >>)

\* the result built from areas_por_zona
ResultadoDasAreas(areas_por_zona) ==
    IF areas_por_zona = << >> THEN ResultadoZoneamentoVazio
    ELSE ResultadoZoneamentoGeom(
             OrdenarChars(DictKeys(areas_por_zona)),
             areas_por_zona,
             Soma(DictValues(areas_por_zona)),
             [i \in 1..Len(areas_por_zona) |->
                 <<areas_por_zona[i][1],
                   IF Soma(DictValues(areas_por_zona)) <= 0 THEN 0
                   ELSE (areas_por_zona[i][2] * 10000) \div Soma(DictValues(areas_por_zona))>>])

\* calcular_zoneamento_incidente(lote_geom, camada_zoneamento, campo_codigo_zona);
\* lote_geom None or empty is << >>
calcular_zoneamento_incidente(lote_geom, camada_zoneamento, campo_codigo_zona) ==
    IF lote_geom = << >> THEN ResultadoZoneamentoVazio
    ELSE IF camada_zoneamento = << >> THEN ResultadoZoneamentoVazio
    ELSE IF detectar_campo_codigo_zona(camada_zoneamento, campo_codigo_zona) = << >>
    THEN ResultadoZoneamentoVazio
    ELSE ResultadoDasAreas(
             AreasPorZonaDe(camada_zoneamento[1].feicoes,
                            detectar_campo_codigo_zona(camada_zoneamento, campo_codigo_zona)[1],
                            << >>))

\* the values of a zone-code field: codes, a code between blanks, blanks
ValoresDeCodigo ==
    {<<"Z", "R", "1">>, <<" ", "Z", "R", "1", " ">>, <<"E", "U", "1">>, <<" ">>}

\* the field lists of the zoning layers: no code field, one, two
CamposDeCamada == {<<"id">>, <<"zona">>, <<"sigla", "codigo">>}

\* the geometric situations of a feature against the parcel
SituacoesDeFeicao ==
    {[geom |-> "vazia", area_inter |-> 0], [geom |-> "fora", area_inter |-> 0],
     [geom |-> "inter_vazia", area_inter |-> 0], [geom |-> "inter", area_inter |-> 0],
     [geom |-> "inter", area_inter |-> 300], [geom |-> "inter", area_inter |-> 500]}

\* the features of a layer with the given fields: the first field holds any
\* value, the others the code ZR1
FeicoesDe(campos) ==
    {[geom |-> s.geom, area_inter |-> s.area_inter,
      atributos |-> [c \in Range(campos) |-> IF c = campos[1] THEN v ELSE <<"Z", "R", "1">>]]
       : s \in SituacoesDeFeicao, v \in ValoresDeCodigo}

\* the lists of at most n elements of S
RECURSIVE SeqsAte(_, _)
SeqsAte(S, n) ==
    IF n = 0 THEN {<< >>}
    ELSE SeqsAte(S, n - 1)
         \cup {Append(l, x) : l \in {m \in SeqsAte(S, n - 1) : Len(m) = n - 1}, x \in S}

\* the zoning layers: None, or a vector layer with at most MaxFeicoes features
CamadasDeZoneamento ==
    {<< >>} \cup UNION {{<<[campos |-> campos, feicoes |-> f]>>
                          : f \in SeqsAte(FeicoesDe(campos), MaxFeicoes)}
                        : campos \in CamposDeCamada}

\* campo_codigo_zona: None, or a field name
CamposForcados == {<< >>, <<"sigla">>, <<"codigo_zona">>}

(***************************************************************************)
(* infraestrutura/espacial/config_camadas.py and the registration of the   *)
(* layers of a request in interface/qt/controlador_ui.py                   *)
(*   a layer is a number: the number of the request whose combo boxes      *)
(*   held it, or the id of a layer of the project no request chose; None   *)
(*   is << >> and a layer <<n>>.  MAPA_CAMADAS is a dict over the roles.   *)
(*   The eight roles are registered and looked up alike: the model keeps   *)
(*   three of them.                                                        *)
(***************************************************************************)
Papeis == {"zoneamento", "lotes", "app_inclinacao"}

\* the order of the registrar_camada calls of executar_analise_zoni_v2
PapeisEmOrdem == <<"lotes", "zoneamento", "app_inclinacao">>

\* detectar_camada_inteligente(chave): the first layer of the project with
\* the highest score for the role (list.sort is stable); every layer scores
\* at least the role's prioridade, so every layer is a candidate.  A layer
\* of the project is [id, pont], pont being its score per role.
detectar_camada_inteligente(chave, projeto) ==
    IF projeto = << >> THEN << >>
    ELSE <<MaxPrimeiro(projeto, [i \in 1..Len(projeto) |-> projeto[i].pont[chave]]).id>>

\* obter_camada(chave): the layer it returns and MAPA_CAMADAS after it
obter_camada(chave, mapa, projeto) ==
    IF mapa[chave] # << >> THEN [camada |-> mapa[chave], mapa |-> mapa]
    ELSE IF detectar_camada_inteligente(chave, projeto) # << >>
    THEN [camada |-> detectar_camada_inteligente(chave, projeto),
          mapa |-> [mapa EXCEPT ![chave] = detectar_camada_inteligente(chave, projeto)]]
    ELSE [camada |-> << >>, mapa |-> mapa]

\* registrar_camada(chave, camada): MAPA_CAMADAS after it
registrar_camada(chave, camada, mapa) ==
    IF camada = << >> THEN mapa ELSE [mapa EXCEPT ![chave] = camada]

\* ControladorUI._layer(combo, chave): the layer of the combo box, else the
\* one MAPA_CAMADAS holds
_layer(combo, chave, mapa) == IF combo # << >> THEN combo ELSE mapa[chave]

\* the registrar_camada calls of executar_analise_zoni_v2, one after the other
RECURSIVE RegistrarCamadas(_, _, _)
RegistrarCamadas(chaves, combos, mapa) ==
    IF chaves = << >> THEN mapa
    ELSE RegistrarCamadas(Tail(chaves), combos,
                          registrar_camada(Head(chaves),
                                           _layer(combos[Head(chaves)], Head(chaves), mapa),
                                           mapa))

\* the projects with layers: one layer, two layers of different scores
Projetos ==
    {<<[id |-> 90, pont |-> [k \in Papeis |-> 10]]>>,
     <<[id |-> 90, pont |-> [k \in Papeis |-> 10]],
       [id |-> 91, pont |-> [k \in Papeis |-> IF k = "zoneamento" THEN 135 ELSE 10]]>>}

(***************************************************************************)
(* carregar_parametros_de_arquivo of dominio/regras/regras_zoneamento.py   *)
(*   a JSON value is << >> (null, or an absent key), [tipo |-> "str",      *)
(*   chars |-> its characters] or [tipo |-> "num", milesimos |-> the       *)
(*   number in thousandths]; a float the loader returns is <<thousandths>> *)
(***************************************************************************)
Digitos == <<"0", "1", "2", "3", "4", "5">>

\* the value of a decimal digit
DigitoDe(ch) == (CHOOSE i \in 1..Len(Digitos) : Digitos[i] = ch) - 1

SoDigitos(s) == \A i \in 1..Len(s) : Em(s[i], Digitos)

\* the number written by a sequence of digits
RECURSIVE ValorDosDigitos(_)
ValorDosDigitos(s) ==
    IF s = << >> THEN 0
    ELSE ValorDosDigitos(SubSeq(s, 1, Len(s) - 1)) * 10 + DigitoDe(s[Len(s)])

\* str.replace(de, para) for one-character de; para is a string of length 0 or 1
RECURSIVE Replace(_, _, _)
Replace(s, de, para) ==
    IF s = << >> THEN << >>
    ELSE (IF Head(s) = de THEN para ELSE <<Head(s)>>) \o Replace(Tail(s), de, para)

\* the thousandths written by the digits after the decimal point
Milesimos(frac) ==
    ValorDosDigitos(SubSeq(frac \o <<"0", "0", "0">>, 1, 3))

\* float(v) of a str of digits, points and other characters: << >> when it
\* raises ValueError
float(v) ==
    IF Cardinality({i \in 1..Len(v) : v[i] = "."}) > 1 THEN << >>
    ELSE IF ~SoDigitos(Replace(v, ".", << >>)) \/ Replace(v, ".", << >>) = << >> THEN << >>
    ELSE IF \E i \in 1..Len(v) : v[i] = "."
    THEN <<ValorDosDigitos(SubSeq(v, 1, (CHOOSE i \in 1..Len(v) : v[i] = ".") - 1)) * 1000
           + Milesimos(SubSeq(v, (CHOOSE i \in 1..Len(v) : v[i] = ".") + 1, Len(v)))>>
    ELSE <<ValorDosDigitos(v) * 1000>>

\* _conv(valor): a str is stripped, its points removed and its commas made
\* points, then float() of it, None if that raises; any other value is
\* returned as it is
_conv(valor) ==
    IF valor = << >> THEN << >>
    ELSE IF valor.tipo = "str"
    THEN float(Replace(Replace(Strip(valor.chars), ".", << >>), ",", <<".">>))
    ELSE <<valor.milesimos>>

\* int(x) of a JSON value that is not None: [excecao, valor]; int() of a str
\* takes digits between blanks, int() of a number truncates it
int(x) ==
    IF x.tipo = "str"
    THEN IF SoDigitos(Strip(x.chars)) /\ Strip(x.chars) # << >>
         THEN [excecao |-> None, valor |-> <<ValorDosDigitos(Strip(x.chars))>>]
         ELSE [excecao |-> "ValueError", valor |-> << >>]
    ELSE [excecao |-> None, valor |-> <<x.milesimos \div 1000>>]

\* int(indices[k]) if k in indices and indices[k] is not None else None
IntOpcional(indices, k) ==
    IF Get(indices, k, << >>) = << >> THEN [excecao |-> None, valor |-> << >>]
    ELSE int(indices[k])

CamposNumericos ==
    {"CA_min", "CA_bas", "CA_max", "Tperm", "Tocup", "Npav_bas", "Npav_max", "Gab_bas", "Gab_max"}

\* extras: the items of indices under any other key
Extras(indices) == [k \in (DOMAIN indices) \ CamposNumericos |-> indices[k]]

\* the ParametrosZona built from one entry of the file: [excecao, parametros]
ParametrosDeEntrada(codigo, indices) ==
    IF IntOpcional(indices, "Npav_bas").excecao # None
       \/ IntOpcional(indices, "Npav_max").excecao # None
    THEN [excecao |-> "ValueError", parametros |-> << >>]
    ELSE [excecao |-> None,
          parametros |->
            <<[codigo |-> codigo,
               CA_min |-> _conv(Get(indices, "CA_min", << >>)),
               CA_bas |-> _conv(Get(indices, "CA_bas", << >>)),
               CA_max |-> _conv(Get(indices, "CA_max", << >>)),
               Tperm |-> _conv(Get(indices, "Tperm", << >>)),
               Tocup |-> _conv(Get(indices, "Tocup", << >>)),
               Npav_bas |-> IntOpcional(indices, "Npav_bas").valor,
               Npav_max |-> IntOpcional(indices, "Npav_max").valor,
               Gab_bas |-> _conv(Get(indices, "Gab_bas", << >>)),
               Gab_max |-> _conv(Get(indices, "Gab_max", << >>)),
               extras |-> Extras(indices)]>>]

\* carregar_parametros_de_arquivo on a file whose JSON is the list of items
\* bruto, each <<codigo, indices>>: [excecao, parametros_por_zona], the dict
\* as the list of its items
RECURSIVE carregar_parametros_de_arquivo(_, _)
carregar_parametros_de_arquivo(bruto, parametros_por_zona) ==
    IF bruto = << >> THEN [excecao |-> None, parametros_por_zona |-> parametros_por_zona]
    ELSE IF ParametrosDeEntrada(Head(bruto)[1], Head(bruto)[2]).excecao # None
    THEN [excecao |-> ParametrosDeEntrada(Head(bruto)[1], Head(bruto)[2]).excecao,
          parametros_por_zona |-> << >>]
    ELSE carregar_parametros_de_arquivo(
             Tail(bruto),
             Append(parametros_por_zona,
                    <<Head(bruto)[1],
                      ParametrosDeEntrada(Head(bruto)[1], Head(bruto)[2]).parametros[1]>>))

Str(chars) == [tipo |-> "str", chars |-> chars]

Num(milesimos) == [tipo |-> "num", milesimos |-> milesimos]

\* the strings written with a decimal comma and points between the thousands
TextosBrasileiros ==
    {<<"1", ".", "2", "3", "4", ",", "5">>, <<"2", ",", "5">>, <<"4", ",", "0">>,
     <<" ", "0", ",", "2", "5", " ">>, <<"1", ".", "0", "0", "0">>, <<"4">>}

\* the values of a key of the indices object
ValoresJSON ==
    {<< >>, Num(2500), Num(4000)}
    \cup {Str(t) : t \in TextosBrasileiros}
    \cup {Str(<<"2", ".", "5">>), Str(<<"x">>), Str(<< >>), Str(<<"1", ",", "2", ",", "3">>)}

\* the indices objects: two of the numeric keys with any value, the others
\* absent, and up to two other keys
IndicesJSON ==
    UNION {{[k \in {f, g} \cup ex |-> IF k = f THEN v ELSE IF k = g THEN Num(4000)
                                      ELSE Str(<<"x">>)]
             : v \in ValoresJSON, ex \in {{}, {"nota"}, {"nota", "uso"}}}
           : f \in CamposNumericos, g \in {"CA_bas", "Npav_bas"}}

\* the raster behind the slope layer of a project
RasterDoMundo(inclinacao) ==
    IF inclinacao = "invalida"
    THEN [RasterLido(<<NODATA>>, 250000, <<[dentro |-> TRUE, valor |-> 451]>>)
             EXCEPT !.camada = "invalida"]
    ELSE IF inclinacao = "com_app"
    THEN RasterLido(<<NODATA>>, 250000,
                    <<[dentro |-> TRUE, valor |-> 80], [dentro |-> TRUE, valor |-> 451]>>)
    ELSE RasterLido(<<NODATA>>, 250000,
                    <<[dentro |-> TRUE, valor |-> 80], [dentro |-> TRUE, valor |-> 450]>>)

\* block 4 of analisar_lote: res_inclinacao, None being << >>.  With a layer
\* it is the answer of analisar_inclinacao_terreno (None if that raises);
\* without one it is the example data
InclinacaoNoLote(camada_inclinacao, inclinacao, area_lote_m2) ==
    IF camada_inclinacao = << >> THEN <<InclinacaoDeExemplo(area_lote_m2)>>
    ELSE IF inclinacao = "erro" THEN << >>
    ELSE <<analisar_inclinacao_terreno(RasterDoMundo(inclinacao),
                                       <<area_lote_m2 * 10000>>)>>

\* block 4: what it appends to res_zon.mensagens
MensagensDeInclinacao(camada_inclinacao, inclinacao, res_inclinacao) ==
    IF camada_inclinacao = << >> THEN << >>
    ELSE IF inclinacao = "erro" THEN <<"Erro na analise de inclinacao do terreno">>
    ELSE IF res_inclinacao[1].tem_app_por_inclinacao
    THEN <<"Detectada APP por inclinacao do terreno (>45)">>
    ELSE << >>

\* the ResultadoAnaliseLote returned
ResultadoAnaliseLote(frame, res_inclinacao, msgs) ==
    [zoneamento_intersecao |-> [frame.res_zon EXCEPT !.mensagens = @ \o msgs],
     zoneamento_avaliacao |-> frame.res_av_zon,
     zoneamento_geom |-> frame.res_geom,
     zona_resolvida |-> frame.zona_resolvida,
     testadas |-> frame.res_testadas,
     inclinacao |-> res_inclinacao,
     detectou_frente_nota_10 |-> frame.detectou_frente_nota_10,
     detectou_frente_nota_37 |-> frame.detectou_frente_nota_37,
     nome_via_nota_10 |-> frame.nome_via_nota_10]

\* block 4 and the return, for the slope result of the block
RetornoDoLote(frame, inclinacao, res_inclinacao) ==
    ResultadoAnaliseLote(frame, res_inclinacao,
                         MensagensDeInclinacao(frame.camada_inclinacao, inclinacao,
                                               res_inclinacao))

(***************************************************************************)
(* State.  A behaviour follows one request through one of the two rule     *)
(* engines, and then through the same engine once more.                    *)
(*   pc          : "ocioso" before the call; "resolvido" / "repetido"      *)
(*                 after the first / second run of the resolver; "regra" / *)
(*                 "regra_repetida" after the first / second run of        *)
(*                 aplicar_regra_sobreposicao                              *)
(*   chamada     : the arguments of ZoneamentoResolvedor.resolver, with    *)
(*                 the decomposition as the pipeline produces it           *)
(*   zr          : the ZonaResolvida of that call                          *)
(*   zr2         : the ZonaResolvida of a second call for the same request *)
(*                 whose caller lists the incident zones in any order      *)
(*   reordenado  : the second call got its lists in another order          *)
(*   chamada_regra : the arguments of aplicar_regra_sobreposicao           *)
(*   rr, rr2     : its result, and that of the second call                 *)
(*   lote_pc     : the block of analisar_lote about to run: "ocioso",      *)
(*                 "bloco2", "bloco3", "bloco4", then "fim" (returned) or  *)
(*                 "erro" (an exception left the function)                 *)
(*   mundo       : what the project holds for the request: the registry   *)
(*                 of layers and what each spatial routine answers        *)
(*   locais      : the local names of analisar_lote bound so far, and     *)
(*                 their values (None is << >>)                           *)
(*   retorno     : << >>, or the ResultadoAnaliseLote returned            *)
(*   excecao     : the exception that left analisar_lote, or None         *)
(*   aval_chamada : << >>, or the arguments of the one call of             *)
(*                 avaliar_edificacao_na_zona                              *)
(*   aval_retorno : << >>, or the ResultadoAvaliacaoZona it returned       *)
(*   aval_excecao : the exception it raised, or None                       *)
(*   incl_chamada : << >>, or the arguments of the one call of             *)
(*                 analisar_inclinacao_terreno: the raster and the parcel, *)
(*                 and area_lote_m2                                        *)
(*   incl_retorno : << >>, or the ResultadoInclinacao it returned          *)
(*   test_chamada : << >>, or the arguments of the one call of             *)
(*                 calcular_testadas_e_logradouros and the surroundings of *)
(*                 each segment of the parcel                              *)
(*   test_retorno : << >>, or the ResultadoTestadas it returned            *)
(*   zl_chamada   : << >>, or the arguments of the one call of             *)
(*                 calcular_zoneamento_incidente                           *)
(*   zl_retorno   : << >>, or the ResultadoZoneamentoGeom it returned      *)
(*   carga_chamada: << >>, or the JSON of the file of the one call of      *)
(*                 carregar_parametros_de_arquivo                          *)
(*   carga_retorno: << >>, or what the call raised or returned             *)
(*   MAPA_CAMADAS : the module-level dict of config_camadas                *)
(*   projeto      : the layers of the QGIS project                         *)
(*   pedido       : the number of analysis requests started so far         *)
(*   pedido_pc    : "ocioso", or "analisando" while a request runs         *)
(*   combos       : the layer each combo box of the running request holds  *)
(*   consulta     : << >>, or the last obter_camada call of the running    *)
(*                 request: its role and the layer it returned             *)
(***************************************************************************)
VARIABLES pc, chamada, zr, zr2, reordenado, chamada_regra, rr, rr2,
          lote_pc, mundo, locais, retorno, excecao,
          aval_chamada, aval_retorno, aval_excecao,
          incl_chamada, incl_retorno,
          test_chamada, test_retorno,
          zl_chamada, zl_retorno,
          carga_chamada, carga_retorno,
          MAPA_CAMADAS, projeto, pedido, pedido_pc, combos, consulta,
          contiguos_pc, contiguos_chamada, adj, visitados, pilha, contiguos_retorno, gleba

varsResolucao == <<pc, chamada, zr, zr2, reordenado, chamada_regra, rr, rr2>>

varsLote == <<lote_pc, mundo, locais, retorno, excecao>>

varsAvaliacao == <<aval_chamada, aval_retorno, aval_excecao>>

varsInclinacao == <<incl_chamada, incl_retorno>>

varsTestadas == <<test_chamada, test_retorno>>

varsZoneamentoLote == <<zl_chamada, zl_retorno>>

varsCarga == <<carga_chamada, carga_retorno>>

varsCamadas == <<MAPA_CAMADAS, projeto, pedido, pedido_pc, combos, consulta>>

varsContiguos == <<contiguos_pc, contiguos_chamada, adj, visitados, pilha, contiguos_retorno, gleba>>

vars == <<pc, chamada, zr, zr2, reordenado, chamada_regra, rr, rr2,
          lote_pc, mundo, locais, retorno, excecao,
          aval_chamada, aval_retorno, aval_excecao,
          incl_chamada, incl_retorno,
          test_chamada, test_retorno,
          zl_chamada, zl_retorno,
          carga_chamada, carga_retorno,
          MAPA_CAMADAS, projeto, pedido, pedido_pc, combos, consulta,
          contiguos_pc, contiguos_chamada, adj, visitados, pilha, contiguos_retorno, gleba>>

ChamadaPadrao ==
    [res_zon |-> [zona |-> None, macrozona |-> None, eixos |-> << >>, especiais |-> << >>],
     res_geom |-> [zonas |-> << >>, areas_por_zona |-> << >>],
     nota10_ativada |-> FALSE, nota37_ativada |-> FALSE]

ChamadaRegraPadrao ==
    [zonas |-> << >>, areas_por_zona |-> << >>, testadas_por_logradouro |-> << >>,
     nota10_ativada |-> FALSE, nota37_ativada |-> FALSE]

Init ==
    /\ pc = "ocioso"
    /\ chamada = ChamadaPadrao
    /\ zr = ZonaResolvidaPadrao
    /\ zr2 = ZonaResolvidaPadrao
    /\ reordenado = FALSE
    /\ chamada_regra = ChamadaRegraPadrao
    /\ rr = ResultadoRegraPadrao
    /\ rr2 = ResultadoRegraPadrao
    /\ lote_pc = "ocioso"
    /\ mundo = << >>
    /\ locais = << >>
    /\ retorno = << >>
    /\ excecao = None
    /\ aval_chamada = << >>
    /\ aval_retorno = << >>
    /\ aval_excecao = None
    /\ incl_chamada = << >>
    /\ incl_retorno = << >>
    /\ test_chamada = << >>
    /\ test_retorno = << >>
    /\ zl_chamada = << >>
    /\ zl_retorno = << >>
    /\ carga_chamada = << >>
    /\ carga_retorno = << >>
    /\ MAPA_CAMADAS = [k \in Papeis |-> << >>]
    /\ projeto = << >>
    /\ pedido = 0
    /\ pedido_pc = "ocioso"
    /\ combos = [k \in Papeis |-> << >>]
    /\ consulta = << >>
    /\ contiguos_pc = "ocioso"
    /\ contiguos_chamada = << >>
    /\ adj = << >>
    /\ visitados = {}
    /\ pilha = << >>
    /\ contiguos_retorno = << >>
    /\ gleba = "nenhuma"

\* resolvedor.resolver(res_zon, res_geom, nota10_ativada, nota37_ativada)
Resolver ==
    /\ pc = "ocioso"
    /\ \E rz \in ResultadosZoneamento, rg \in ResultadosGeom, n10, n37 \in BOOLEAN :
          /\ chamada' = [res_zon |-> rz, res_geom |-> rg,
                         nota10_ativada |-> n10, nota37_ativada |-> n37]
          /\ zr' = resolver(TabelaParametros, rz, rg, n10, n37)
    /\ pc' = "resolvido"
    /\ UNCHANGED <<zr2, reordenado, chamada_regra, rr, rr2>>
    /\ UNCHANGED <<varsLote, varsAvaliacao, varsInclinacao, varsTestadas, varsZoneamentoLote, varsCamadas, varsCarga, varsContiguos>>

\* the same request resolved again, its incident zones listed in any order
ResolverDeNovo ==
    /\ pc = "resolvido"
    /\ \E p \in Permutacoes(chamada.res_geom.zonas) :
          /\ zr2' = resolver(TabelaParametros, chamada.res_zon,
                             [chamada.res_geom EXCEPT !.zonas = p],
                             chamada.nota10_ativada, chamada.nota37_ativada)
          /\ reordenado' = (p # chamada.res_geom.zonas)
    /\ pc' = "repetido"
    /\ UNCHANGED <<chamada, zr, chamada_regra, rr, rr2>>
    /\ UNCHANGED <<varsLote, varsAvaliacao, varsInclinacao, varsTestadas, varsZoneamentoLote, varsCamadas, varsCarga, varsContiguos>>

\* aplicar_regra_sobreposicao(zonas, areas_por_zona, testadas_por_logradouro,
\*                            nota10_ativada, nota37_ativada)
AplicarRegra ==
    /\ pc = "ocioso"
    /\ \E d \in DecomposicoesRegra, t \in TestadasPorLogradouro, n10, n37 \in BOOLEAN :
          /\ chamada_regra' = [zonas |-> d.zonas, areas_por_zona |-> d.areas_por_zona,
                               testadas_por_logradouro |-> t,
                               nota10_ativada |-> n10, nota37_ativada |-> n37]
          /\ rr' = aplicar_regra_sobreposicao(d.zonas, d.areas_por_zona, t, n10, n37)
    /\ pc' = "regra"
    /\ UNCHANGED <<chamada, zr, zr2, reordenado, rr2>>
    /\ UNCHANGED <<varsLote, varsAvaliacao, varsInclinacao, varsTestadas, varsZoneamentoLote, varsCamadas, varsCarga, varsContiguos>>

\* the same request again, zones and frontage streets listed in any order
AplicarRegraDeNovo ==
    /\ pc = "regra"
    /\ \E p \in Permutacoes(chamada_regra.zonas),
          q \in Permutacoes(chamada_regra.testadas_por_logradouro) :
          /\ rr2' = aplicar_regra_sobreposicao(p, chamada_regra.areas_por_zona, q,
                                               chamada_regra.nota10_ativada,
                                               chamada_regra.nota37_ativada)
          /\ reordenado' = (p # chamada_regra.zonas
                            \/ q # chamada_regra.testadas_por_logradouro)
    /\ pc' = "regra_repetida"
    /\ UNCHANGED <<chamada, zr, zr2, chamada_regra, rr>>
    /\ UNCHANGED <<varsLote, varsAvaliacao, varsInclinacao, varsTestadas, varsZoneamentoLote, varsCamadas, varsCarga, varsContiguos>>

\* analisar_lote(geom_lote, cenario, caminho_parametros_zoneamento,
\* nota10_confirmada): the check of the geometry, the layers of the registry
\* and block 1, the basic intersections
AnalisarLote ==
    /\ lote_pc = "ocioso" /\ pc = "ocioso"
    /\ \E m \in Mundos :
          /\ mundo' = m
          /\ IF m.geom_vazia
             THEN /\ excecao' = "ValueError"
                  /\ lote_pc' = "erro"
                  /\ locais' = [p \in ParametrosAnalisarLote |-> << >>]
             ELSE /\ excecao' = None
                  /\ lote_pc' = "bloco2"
                  /\ locais' = [geom_lote |-> "geom", cenario |-> [area_lote_m2 |-> m.area_lote_m2],
                                caminho_parametros_zoneamento |-> "parametros.json",
                                nota10_confirmada |-> m.nota10_confirmada,
                                max_dist_testada_m |-> 20,
                                camada_zoneamento |-> m.camadas["zoneamento"],
                                camada_lotes |-> m.camadas["lotes"],
                                camada_inclinacao |-> m.camadas["app_inclinacao"],
                                res_zon |-> m.res_zon]
    /\ UNCHANGED retorno
    /\ UNCHANGED <<varsResolucao, varsAvaliacao, varsInclinacao, varsTestadas, varsZoneamentoLote, varsCamadas, varsCarga, varsContiguos>>

\* block 2: the decomposition by zone, the boundary segments, the frontage
\* streets of Notes 10 and 37
Bloco2 ==
    /\ lote_pc = "bloco2"
    /\ LET res_geom == IF locais.camada_zoneamento # << >>
                       THEN mundo.decomposicao ELSE << >>
           falhou == locais.camada_lotes # << >> /\ mundo.testadas = << >>
           res_testadas == IF locais.camada_lotes # << >> /\ mundo.testadas # << >>
                           THEN <<[testadas_por_logradouro |-> mundo.testadas[1]]>>
                           ELSE << >>
           res_zon == IF falhou
                      THEN [locais.res_zon EXCEPT !.mensagens =
                               Append(@, "Falha ao calcular testadas/logradouros")]
                      ELSE locais.res_zon
       IN  locais' = [res_geom |-> res_geom, res_testadas |-> res_testadas,
                      detectou_frente_nota_10 |->
                          FrenteNota(res_testadas, "sebastião manoel coelho"),
                      detectou_frente_nota_37 |->
                          FrenteNota(res_testadas, "lúcio joaquim mendes"),
                      nome_via_nota_10 |-> NomeViaNota10(res_testadas)]
                     @@ [locais EXCEPT !.res_zon = res_zon]
    /\ lote_pc' = "bloco3"
    /\ UNCHANGED <<mundo, retorno, excecao>>
    /\ UNCHANGED <<varsResolucao, varsAvaliacao, varsInclinacao, varsTestadas, varsZoneamentoLote, varsCamadas, varsCarga, varsContiguos>>

\* block 3: the resolver, its messages, and the evaluation of the indices in
\* the reference zone.  ZoneamentoResolvedor(caminho_parametros_zoneamento)
\* loads the parameter file, and avaliar_edificacao_na_zona raises ValueError
\* for a lot area that is not positive: both are outside any try
Bloco3 ==
    /\ lote_pc = "bloco3"
    /\ LET zona_resolvida == ResolverNoLote(locais)
           res_zon == IntegrarMensagens(locais.res_zon, zona_resolvida)
           avalia == TemZonaDeReferencia(zona_resolvida)
                       /\ zona_resolvida[1].parametros # << >>
       IN  IF locais.res_geom # << >> /\ ~mundo.parametros_legiveis
           THEN /\ excecao' = "FileNotFoundError"
                /\ lote_pc' = "erro"
                /\ locais' = locais
           ELSE IF avalia /\ locais.cenario.area_lote_m2 <= 0
           THEN /\ excecao' = "ValueError"
                /\ lote_pc' = "erro"
                /\ locais' = [zona_resolvida |-> zona_resolvida]
                               @@ [locais EXCEPT !.res_zon = res_zon]
           ELSE /\ excecao' = None
                /\ lote_pc' = "bloco4"
                /\ locais' =
                     [zona_resolvida |-> zona_resolvida,
                      res_av_zon |->
                          IF avalia
                          THEN <<[zona |-> zona_resolvida[1].zona_principal,
                                  parametros |-> zona_resolvida[1].parametros[1],
                                  area_lote_m2 |-> locais.cenario.area_lote_m2]>>
                          ELSE << >>]
                     @@ [locais EXCEPT !.res_zon =
                            IF avalia THEN res_zon
                            ELSE IF TemZonaDeReferencia(zona_resolvida)
                            THEN [res_zon EXCEPT !.mensagens =
                                     Append(@, "Parametros urbanisticos da zona nao encontrados")]
                            ELSE [res_zon EXCEPT !.mensagens =
                                     Append(@, "Nao foi possivel definir zona de referencia")]]
    /\ UNCHANGED <<mundo, retorno>>
    /\ UNCHANGED <<varsResolucao, varsAvaliacao, varsInclinacao, varsTestadas, varsZoneamentoLote, varsCamadas, varsCarga, varsContiguos>>

\* block 4, the slope of the terrain, and the return of ResultadoAnaliseLote
Bloco4 ==
    /\ lote_pc = "bloco4"
    /\ retorno' = <<RetornoDoLote(locais, mundo.inclinacao,
                                  InclinacaoNoLote(locais.camada_inclinacao,
                                                   mundo.inclinacao,
                                                   locais.cenario.area_lote_m2))>>
    /\ lote_pc' = "fim"
    /\ UNCHANGED <<mundo, locais, excecao>>
    /\ UNCHANGED <<varsResolucao, varsAvaliacao, varsInclinacao, varsTestadas, varsZoneamentoLote, varsCamadas, varsCarga, varsContiguos>>

Next == Resolver \/ ResolverDeNovo \/ AplicarRegra \/ AplicarRegraDeNovo

Spec == Init /\ [][Next]_vars

\* one analysis of a parcel, block by block
NextLote == AnalisarLote \/ Bloco2 \/ Bloco3 \/ Bloco4

SpecLote == Init /\ [][NextLote]_vars

\* avaliar_edificacao_na_zona(zona, parametros, area_lote_m2, ...): one call,
\* which raises ValueError or returns a ResultadoAvaliacaoZona
Avaliar ==
    /\ aval_chamada = << >>
    /\ \E p \in ParametrosDeAvaliacao, lote \in AreasDeLote, ac \in AreasConstruidas,
          ao \in AreasOcupadas, ap \in AreasPermeaveis, h \in Alturas, n \in Pavimentos :
          /\ aval_chamada' = <<[zona |-> p.codigo, parametros |-> p, area_lote_m2 |-> lote,
                                area_construida_total_m2 |-> ac,
                                area_ocupada_projecao_m2 |-> ao,
                                area_permeavel_m2 |-> ap,
                                altura_maxima_m |-> h, numero_pavimentos |-> n]>>
          /\ IF AreaInvalida(lote)
             THEN /\ aval_excecao' = "ValueError"
                  /\ aval_retorno' = << >>
             ELSE /\ aval_excecao' = None
                  /\ aval_retorno' = <<avaliar_edificacao_na_zona(p.codigo, p, lote,
                                                                  ac, ao, ap, h, n)>>
    /\ UNCHANGED <<varsResolucao, varsLote, varsInclinacao, varsTestadas, varsZoneamentoLote, varsCamadas, varsCarga, varsContiguos>>

NextAvaliacao == Avaliar

SpecAvaliacao == Init /\ [][NextAvaliacao]_vars

\* analisar_inclinacao_terreno(lote_geom, camada_inclinacao, area_lote_m2): one
\* call; the try / except Exception around its body lets no exception out
AnalisarInclinacao ==
    /\ incl_chamada = << >>
    /\ \E raster \in Rasters, area \in AreasDeLoteDaAnalise :
          /\ incl_chamada' = <<[raster |-> raster, area_lote_m2 |-> area]>>
          /\ incl_retorno' = <<analisar_inclinacao_terreno(raster, area)>>
    /\ UNCHANGED <<varsResolucao, varsLote, varsAvaliacao, varsTestadas, varsZoneamentoLote, varsCamadas, varsCarga, varsContiguos>>

NextInclinacao == AnalisarInclinacao

SpecInclinacao == Init /\ [][NextInclinacao]_vars

\* calcular_testadas_e_logradouros(lote_geom, camada_lotes, camada_logradouros,
\* max_dist_m) on a parcel
CalcularTestadas ==
    /\ test_chamada = << >>
    /\ \E lote_geom \in LotesGeom, camada_lotes \in Camadas, camada_logradouros \in Camadas :
          \E entornos \in EntornosDoLote(lote_geom) :
             /\ test_chamada' = <<[lote_geom |-> lote_geom, camada_lotes |-> camada_lotes,
                                   camada_logradouros |-> camada_logradouros,
                                   entornos |-> entornos]>>
             /\ test_retorno' = <<calcular_testadas_e_logradouros(
                                      lote_geom, camada_lotes, camada_logradouros, entornos)>>
    /\ UNCHANGED <<varsResolucao, varsLote, varsAvaliacao, varsInclinacao, varsZoneamentoLote, varsCamadas, varsCarga, varsContiguos>>

\* the same call with lote_geom None or empty
CalcularTestadasSemLote ==
    /\ test_chamada = << >>
    /\ \E camada_lotes \in Camadas, camada_logradouros \in Camadas :
          /\ test_chamada' = <<[lote_geom |-> << >>, camada_lotes |-> camada_lotes,
                                camada_logradouros |-> camada_logradouros,
                                entornos |-> << >>]>>
          /\ test_retorno' = <<calcular_testadas_e_logradouros(
                                   << >>, camada_lotes, camada_logradouros, << >>)>>
    /\ UNCHANGED <<varsResolucao, varsLote, varsAvaliacao, varsInclinacao, varsZoneamentoLote, varsCamadas, varsCarga, varsContiguos>>

NextTestadas == CalcularTestadas \/ CalcularTestadasSemLote

SpecTestadas == Init /\ [][NextTestadas]_vars

\* calcular_zoneamento_incidente(lote_geom, camada_zoneamento, campo_codigo_zona)
CalcularZoneamento ==
    /\ zl_chamada = << >>
    /\ \E lote_geom \in {<< >>, <<"lote">>}, camada_zoneamento \in CamadasDeZoneamento,
          campo_codigo_zona \in CamposForcados :
          /\ zl_chamada' = <<[lote_geom |-> lote_geom, camada_zoneamento |-> camada_zoneamento,
                              campo_codigo_zona |-> campo_codigo_zona]>>
          /\ zl_retorno' = <<calcular_zoneamento_incidente(
                                 lote_geom, camada_zoneamento, campo_codigo_zona)>>
    /\ UNCHANGED <<varsResolucao, varsLote, varsAvaliacao, varsInclinacao, varsTestadas, varsCamadas, varsCarga, varsContiguos>>

NextZoneamentoLote == CalcularZoneamento

\* layers are added to the project before the first request
AbrirProjeto ==
    /\ pedido = 0 /\ pedido_pc = "ocioso" /\ projeto = << >>
    /\ projeto' \in Projetos
    /\ UNCHANGED <<MAPA_CAMADAS, pedido, pedido_pc, combos, consulta>>
    /\ UNCHANGED <<varsResolucao, varsLote, varsAvaliacao, varsInclinacao, varsTestadas, varsZoneamentoLote, varsCarga, varsContiguos>>

\* executar_analise_zoni_v2 up to the registration of the layers of the
\* request: each combo box holds a layer of its own or none
RegistrarPedido ==
    /\ pedido_pc = "ocioso"
    /\ pedido < MaxPedidos
    /\ \E c \in [Papeis -> {<< >>, <<pedido + 1>>}] :
          /\ combos' = c
          /\ MAPA_CAMADAS' = RegistrarCamadas(PapeisEmOrdem, c, MAPA_CAMADAS)
    /\ pedido' = pedido + 1
    /\ pedido_pc' = "analisando"
    /\ consulta' = << >>
    /\ UNCHANGED projeto
    /\ UNCHANGED <<varsResolucao, varsLote, varsAvaliacao, varsInclinacao, varsTestadas, varsZoneamentoLote, varsCarga, varsContiguos>>

\* one obter_camada(chave) call of the analysis
ObterCamada ==
    /\ pedido_pc = "analisando"
    /\ \E chave \in Papeis :
          /\ consulta' = <<[chave |-> chave,
                            camada |-> obter_camada(chave, MAPA_CAMADAS, projeto).camada]>>
          /\ MAPA_CAMADAS' = obter_camada(chave, MAPA_CAMADAS, projeto).mapa
    /\ UNCHANGED <<projeto, pedido, pedido_pc, combos>>
    /\ UNCHANGED <<varsResolucao, varsLote, varsAvaliacao, varsInclinacao, varsTestadas, varsZoneamentoLote, varsCarga, varsContiguos>>

\* the analysis of the request ends
ConcluirPedido ==
    /\ pedido_pc = "analisando"
    /\ pedido_pc' = "ocioso"
    /\ consulta' = << >>
    /\ UNCHANGED <<MAPA_CAMADAS, projeto, pedido, combos>>
    /\ UNCHANGED <<varsResolucao, varsLote, varsAvaliacao, varsInclinacao, varsTestadas, varsZoneamentoLote, varsCarga, varsContiguos>>

\* carregar_parametros_de_arquivo(caminho_json) on a file of one zone
CarregarParametros ==
    /\ carga_chamada = << >>
    /\ \E indices \in IndicesJSON :
          /\ carga_chamada' = << << <<"ZR1", indices>> >> >>
          /\ carga_retorno' = <<carregar_parametros_de_arquivo(<< <<"ZR1", indices>> >>, << >>)>>
    /\ UNCHANGED <<varsResolucao, varsLote, varsAvaliacao, varsInclinacao, varsTestadas, varsZoneamentoLote, varsCamadas, varsContiguos>>

NextCarga == CarregarParametros

SpecCarga == Init /\ [][NextCarga]_vars

NextCamadas == AbrirProjeto \/ RegistrarPedido \/ ObterCamada \/ ConcluirPedido

SpecCamadas == Init /\ [][NextCamadas]_vars

SpecZoneamentoLote == Init /\ [][NextZoneamentoLote]_vars

(***************************************************************************)
(* Properties of the overlap resolution.                                   *)
(***************************************************************************)
\* the results the resolver has returned so far
Resultados ==
    IF pc = "resolvido" THEN {zr}
    ELSE IF pc = "repetido" THEN {zr, zr2}
    ELSE {}

\* the results aplicar_regra_sobreposicao has returned so far
ResultadosRegra ==
    IF pc = "regra" THEN {rr}
    ELSE IF pc = "regra_repetida" THEN {rr, rr2}
    ELSE {}

\* the zones of the request that are geometrically incident: those of the
\* decomposition and the zone of the raw intersection
IncidentesGeom ==
    Range(chamada.res_geom.zonas)
      \cup (IF chamada.res_zon.zona # None THEN {chamada.res_zon.zona} ELSE {})

\* the incident zones of the request: with the axes and special zones the raw
\* intersection names, when the parcel has zoning at all
Incidentes ==
    IF IncidentesGeom = {} THEN {}
    ELSE IncidentesGeom \cup Range(chamada.res_zon.eixos)
                        \cup Range(chamada.res_zon.especiais)

\* the area of the request on which a zone is incident
AreaIncidente(z) == Get(chamada.res_geom.areas_por_zona, z, 0)

\* a code starts with a prefix
ComecaCom(z, prefixo) == StartsWith(Upper(Chars(z)), Chars(prefixo))

EhEspecial(z) == ComecaCom(z, "ZE")
EhAmbiental(z) == ComecaCom(z, "MUPA") \/ ComecaCom(z, "MRO") \/ ComecaCom(z, "MRPA")
EhEixo(z) == ZoneamentoResolvedor_classificar_zona(z) = "EIXO"
EhMacroUrbana(z) == ZoneamentoResolvedor_classificar_zona(z) = "MACRO"

SemNotas == ~chamada.nota10_ativada /\ ~chamada.nota37_ativada

\* a zone is among the applied zones of a result
Aplicada(r, z) == \E i \in 1..Len(r.zonas_aplicadas) : r.zonas_aplicadas[i].codigo = z

\* z has the largest area of a set of incident zones
MaiorAreaEntre(z, grupo) ==
    z \in grupo /\ \A y \in grupo : AreaIncidente(y) <= AreaIncidente(z)

\* C1: whenever the resolver returns a reference zone, that zone is the codigo
\* of one of the applied zones it returns, for all zones, areas, raw
\* intersection metadata and note flags.
C1_ReferenciaEntreAplicadas ==
    \A r \in Resultados : r.zona_principal # None => Aplicada(r, r.zona_principal)

\* C1 witness: Note 10 makes ZEOT2 the reference of a parcel on which ZEOT2 is
\* not incident, and ZEOT2 is among the applied zones.
C1_Witness ==
    /\ pc = "resolvido" /\ chamada.nota10_ativada
    /\ IncidentesGeom # {} /\ "ZEOT2" \notin Incidentes
    /\ zr.zona_principal = "ZEOT2" /\ Aplicada(zr, "ZEOT2")

\* the note's zone is applied and is the reference, for the flags of the request
NotaPrevalece(r) ==
    /\ chamada.nota10_ativada =>
          Aplicada(r, "ZEOT2") /\ r.zona_principal = "ZEOT2"
    /\ (~chamada.nota10_ativada /\ chamada.nota37_ativada) =>
          Aplicada(r, "MUQ3") /\ r.zona_principal = "MUQ3"

\* C2 as stated: for every set of incident zones, Note 10 gives ZEOT2 as applied
\* and reference zone, and Note 37 alone gives MUQ3.  Fails for the empty set.
C2_Original == \A r \in Resultados : NotaPrevalece(r)

\* C2: for every non-empty set of geometrically incident zones, Note 10 gives
\* ZEOT2 among the applied zones and as reference zone, and Note 37 alone
\* gives MUQ3; no Special, Axis or larger zone displaces it.  On a parcel with
\* no incident zone the resolver answers SEM_ZONEAMENTO and applies no note.
C2_NotaPrevaleceComZonas ==
    \A r \in Resultados :
        IF IncidentesGeom # {} THEN NotaPrevalece(r)
        ELSE r.zona_principal = None /\ r.zonas_aplicadas = << >>
             /\ r.tipo_regra = "SEM_ZONEAMENTO"

\* C2 witness: Note 37 alone, with a Special zone and an Axis incident, and
\* MUQ3 is the reference.
C2_Witness ==
    /\ pc = "resolvido" /\ ~chamada.nota10_ativada /\ chamada.nota37_ativada
    /\ \E e, x \in IncidentesGeom : EhEspecial(e) /\ EhEixo(x) /\ AreaIncidente(e) = 500
    /\ zr.zona_principal = "MUQ3" /\ Aplicada(zr, "MUQ3")

\* C3: when analisar_lote returns having found a frontage on a street named
\* Lucio Joaquim Mendes, on a parcel whose decomposition has zones, the
\* zona_resolvida it returns has MUQ3 as reference zone and Note 37 among the
\* active notes, no flag and no action of the interface being needed.
C3_Nota37Automatica ==
    (/\ lote_pc = "fim"
     /\ retorno[1].detectou_frente_nota_37
     /\ retorno[1].zoneamento_geom # << >>
     /\ retorno[1].zoneamento_geom[1].zonas # << >>)
       => /\ retorno[1].zona_resolvida # << >>
          /\ retorno[1].zona_resolvida[1].zona_principal = "MUQ3"
          /\ Em("37", retorno[1].zona_resolvida[1].notas_ativas)

\* C4: with no note flag, when a Special zone (code starting with ZE) is
\* incident, the reference zone is a Special zone of maximal incident area
\* among the incident Special zones, under the label ESPECIAL_PREDOMINANTE,
\* whatever else is incident.
C4_EspecialPredomina ==
    \A r \in Resultados :
        LET especiais == {z \in Incidentes : EhEspecial(z)}
        IN  (SemNotas /\ especiais # {}) =>
               /\ MaiorAreaEntre(r.zona_principal, especiais)
               /\ r.tipo_regra = "ESPECIAL_PREDOMINANTE"

\* C4 witness: a Special zone of 300 with an Axis of 500, and the Special zone
\* is the reference.
C4_Witness ==
    /\ pc = "resolvido" /\ SemNotas
    /\ \E e, x \in IncidentesGeom :
          /\ EhEspecial(e) /\ EhEixo(x)
          /\ AreaIncidente(e) = 300 /\ AreaIncidente(x) = 500
          /\ zr.zona_principal = e
    /\ zr.tipo_regra = "ESPECIAL_PREDOMINANTE"

\* the zones among which the resolver chooses the reference by largest area
GrupoDaEscolha ==
    LET especiais == {z \in Incidentes : EhEspecial(z)}
        eixos == {z \in Incidentes : EhEixo(z)}
        demais == {z \in Incidentes : ~EhAmbiental(z)}
    IN  IF especiais # {} THEN especiais
        ELSE IF eixos # {} THEN eixos
        ELSE IF demais # {} THEN demais
        ELSE Incidentes

\* the zones of a rulebook result among which its zona_principal was chosen
GrupoDaRegra(r) ==
    IF Em(r.zona_principal, r.zonas_especiais) THEN Range(r.zonas_especiais)
    ELSE IF Em(r.zona_principal, r.zonas_eixo) THEN Range(r.zonas_eixo)
    ELSE Range(r.zonas_macros)

\* C5: when the reference zone is chosen by largest incident area and several
\* candidates have the same maximal area, the lexicographically smallest code
\* is chosen, in whatever order the zones were supplied; ZE1 and ZE2 with 300
\* each give ZE1.
C5_Desempate ==
    /\ \A r \in Resultados :
          (SemNotas /\ Incidentes # {}) =>
             /\ MaiorAreaEntre(r.zona_principal, GrupoDaEscolha)
             /\ \A y \in GrupoDaEscolha :
                   AreaIncidente(y) = AreaIncidente(r.zona_principal)
                      => ~StrMenor(Chars(y), Chars(r.zona_principal))
             /\ (/\ {"ZE1", "ZE2"} \subseteq IncidentesGeom
                 /\ AreaIncidente("ZE1") = 300 /\ AreaIncidente("ZE2") = 300)
                   => r.zona_principal = "ZE1"
    /\ \A r \in ResultadosRegra :
          (/\ r.zona_principal # None
           /\ r.tipo_regra \notin {"NOTA_10_ZEOT2", "NOTA_37_MUQ3"}) =>
             \A y \in GrupoDaRegra(r) :
                 Get(chamada_regra.areas_por_zona, y, 0)
                    = Get(chamada_regra.areas_por_zona, r.zona_principal, 0)
                    => ~StrMenor(Chars(y), Chars(r.zona_principal))

\* C5 witness: ZE1 and ZE2 with 300 each, supplied as ZE2, ZE1 in the second
\* run, and the reference is ZE1.
C5_Witness ==
    /\ pc = "repetido" /\ reordenado /\ SemNotas
    /\ chamada.res_geom.zonas = <<"ZE1", "ZE2">>
    /\ AreaIncidente("ZE1") = 300 /\ AreaIncidente("ZE2") = 300
    /\ zr2.zona_principal = "ZE1"

\* exactly one zone is incident, an urban macro zone, and no note flag is set
MacroUnica == SemNotas /\ \E z \in Incidentes : Incidentes = {z} /\ EhMacroUrbana(z)

CasoMacroMultipla ==
    LET zs == Range(chamada_regra.zonas)
        ts == chamada_regra.testadas_por_logradouro
    IN  /\ ~chamada_regra.nota10_ativada /\ ~chamada_regra.nota37_ativada
        /\ ~AcessoLucio(ts)
        /\ \A i \in 1..Len(ts) : _zona_por_logradouro(ts[i]) = None
        /\ Cardinality(zs) >= 2
        /\ \A z \in zs : _classificar_zona(z) = "MACRO" /\ z \notin MACROZONAS_COEXISTENTES

DizAdotada(r, z) ==
    \E i \in 1..Len(r.resumo) : r.resumo[i] = Parte(TextoZonaPredominante, <<z>>)

\* the request reaches the fallback: zones are incident, none Special or Axis,
\* and no note flag is set
CasoFallback ==
    SemNotas /\ Incidentes # {} /\ \A z \in Incidentes : ~EhEspecial(z) /\ ~EhEixo(z)

\* C8 as stated: the fallback picks the zone of largest area among the zones
\* that are not environmental, never an environmental one, and says so.
\* Fails when every incident zone is environmental.
C8_Original ==
    \A r \in Resultados :
        CasoFallback =>
           /\ MaiorAreaEntre(r.zona_principal, {z \in Incidentes : ~EhAmbiental(z)})
           /\ DizAdotada(r, r.zona_principal)

\* C8: the fallback picks the incident zone of largest area among the zones
\* that are not environmental when there is one, and among all the incident
\* zones when every one of them is environmental; the rationale says that the
\* zone was adopted for the synthesis of the indices by its largest area.
C8_FallbackMaiorArea ==
    \A r \in Resultados :
        CasoFallback =>
           LET demais == {z \in Incidentes : ~EhAmbiental(z)}
           IN  /\ MaiorAreaEntre(r.zona_principal,
                                 IF demais # {} THEN demais ELSE Incidentes)
               /\ DizAdotada(r, r.zona_principal)

\* C8 witness: an environmental zone of 500 with another zone of 300, and the
\* smaller zone is the reference.
C8_Witness ==
    /\ pc = "resolvido" /\ CasoFallback
    /\ \E a, z \in IncidentesGeom :
          /\ EhAmbiental(a) /\ ~EhAmbiental(z)
          /\ AreaIncidente(a) = 500 /\ AreaIncidente(z) = 300
          /\ zr.zona_principal = z /\ DizAdotada(zr, z)

\* C9: every incident environmental zone (code starting with MUPA, MRO or
\* MRPA) is among the applied zones with its own incident area, whatever the
\* other zones, the note flags and the reference zone.
C9_AmbientalPermanece ==
    \A r \in Resultados :
        \A z \in Incidentes :
            EhAmbiental(z) =>
               \E i \in 1..Len(r.zonas_aplicadas) :
                   /\ r.zonas_aplicadas[i].codigo = z
                   /\ r.zonas_aplicadas[i].area_m2 = AreaIncidente(z)
                   /\ r.zonas_aplicadas[i].tipo = "AMBIENTAL"

\* C9 witness: Note 10 is set, an environmental zone of 300 lies with a
\* Special zone of 500, and the environmental zone is applied with 300.
C9_Witness ==
    /\ pc = "resolvido" /\ chamada.nota10_ativada
    /\ zr.zona_principal = "ZEOT2"
    /\ \E a, e \in IncidentesGeom :
          /\ EhAmbiental(a) /\ EhEspecial(e)
          /\ AreaIncidente(a) = 300 /\ AreaIncidente(e) = 500
          /\ \E i \in 1..Len(zr.zonas_aplicadas) :
                zr.zonas_aplicadas[i].codigo = a /\ zr.zonas_aplicadas[i].area_m2 = 300

\* C10: two runs of the resolver, and of aplicar_regra_sobreposicao, on the
\* same zones, areas, note flags and frontage streets give the same reference
\* zone and the same rule label, also when the lists come in another order.
C10_Determinismo ==
    /\ pc = "repetido" =>
          /\ zr2.zona_principal = zr.zona_principal
          /\ zr2.tipo_regra = zr.tipo_regra
    /\ pc = "regra_repetida" =>
          /\ rr2.zona_principal = rr.zona_principal
          /\ rr2.tipo_regra = rr.tipo_regra

\* C10 witness: a second run with two zones of equal area in the other order
\* returned the reference zone and label of the first.
C10_Witness ==
    /\ pc = "repetido" /\ reordenado
    /\ Len(chamada.res_geom.zonas) = 2
    /\ AreaIncidente(chamada.res_geom.zonas[1]) = AreaIncidente(chamada.res_geom.zonas[2])
    /\ zr.zona_principal # None /\ zr2.zona_principal = zr.zona_principal
    /\ zr2.tipo_regra = zr.tipo_regra

(***************************************************************************)
(* Properties of the evaluation of a building scenario in a zone.          *)
(***************************************************************************)
\* the wordings of pendencias in a result
Frases(r) == {r.pendencias[i].frase : i \in 1..Len(r.pendencias)}

\* how many times a text occurs in observacoes
Ocorrencias(r, texto) == Cardinality({i \in 1..Len(r.observacoes) : r.observacoes[i] = texto})

\* the keys of valores_calculados
Chaves(r) == {r.valores_calculados[i][1] : i \in 1..Len(r.valores_calculados)}

\* the five optional fields of the scenario: the argument, its advisory, the
\* violations of its block and the value the block computes
CamposOpcionais ==
    {[campo |-> "area_construida_total_m2", obs |-> OBS_CA, chave |-> "CA_real",
      frases |-> {"CA real inferior ao CA mínimo", "CA real superior ao CA máximo"}],
     [campo |-> "area_ocupada_projecao_m2", obs |-> OBS_TOCUP, chave |-> "Tocup_real",
      frases |-> {"Taxa de ocupação real superior à máxima"}],
     [campo |-> "area_permeavel_m2", obs |-> OBS_TPERM, chave |-> "Tperm_real",
      frases |-> {"Taxa de permeabilidade real inferior à mínima"}],
     [campo |-> "numero_pavimentos", obs |-> OBS_NPAV, chave |-> "Npav_real",
      frases |-> {"Número de pavimentos superior ao máximo"}],
     [campo |-> "altura_maxima_m", obs |-> OBS_GAB, chave |-> "Gab_real",
      frases |-> {"Altura máxima superior ao gabarito máximo"}]}

TodosOmitidos(c) == \A f \in CamposOpcionais : c[f.campo] = << >>

\* C11: in every result avaliar_edificacao_na_zona returns, conforme is true
\* if and only if the list pendencias is empty.
C11_ConformeSemPendencias ==
    aval_retorno # << >> =>
        (aval_retorno[1].conforme <=> aval_retorno[1].pendencias = << >>)

\* a result with two violations, which is not conforme
C11_Witness ==
    /\ aval_retorno # << >>
    /\ Len(aval_retorno[1].pendencias) >= 2
    /\ ~aval_retorno[1].conforme

\* C12: each optional scenario field that is None yields exactly one entry of
\* observacoes for that field, no violation of its block and no computed
\* value, whatever the limits of the zone; with the five fields None the
\* result is conforme and has five entries in observacoes.
C12_OmitidoGeraObservacao ==
    aval_retorno # << >> =>
        /\ \A f \in CamposOpcionais :
              aval_chamada[1][f.campo] = << >> =>
                  /\ Ocorrencias(aval_retorno[1], f.obs) = 1
                  /\ Frases(aval_retorno[1]) \cap f.frases = {}
                  /\ f.chave \notin Chaves(aval_retorno[1])
        /\ TodosOmitidos(aval_chamada[1]) =>
              /\ aval_retorno[1].conforme
              /\ Len(aval_retorno[1].observacoes) = 5

\* the five fields None in a zone that sets every maximum and minimum
C12_Witness ==
    /\ aval_retorno # << >>
    /\ TodosOmitidos(aval_chamada[1])
    /\ \A l \in {"CA_min", "CA_max", "Tocup", "Tperm", "Npav_max", "Gab_max"} :
          aval_chamada[1].parametros[l] # << >>
    /\ Len(aval_retorno[1].observacoes) = 5

\* C13: the call raises ValueError, and returns no result, exactly when the
\* lot area is zero or negative, whatever the other arguments are.
C13_AreaInvalidaLevanta ==
    aval_chamada # << >> =>
        IF aval_chamada[1].area_lote_m2 <= 0
        THEN aval_excecao = "ValueError" /\ aval_retorno = << >>
        ELSE aval_excecao = None /\ aval_retorno # << >>

\* a call with a negative lot area and every other field given, which raised
C13_Witness ==
    /\ aval_chamada # << >>
    /\ aval_chamada[1].area_lote_m2 < 0
    /\ \A f \in CamposOpcionais : aval_chamada[1][f.campo] # << >>
    /\ aval_excecao = "ValueError"

\* built area / lot area exceeds CA_max by more than 1e-6 (areas in
\* millionths of a square metre over square metres, CA_max in millionths)
ExcedeCAMax(c) ==
    c.area_construida_total_m2[1] > (c.parametros.CA_max[1] + 1) * c.area_lote_m2

\* the zone sets no CA_min above its CA_max
ZonaCoerente(p) ==
    p.CA_min = << >> \/ p.CA_max = << >> \/ p.CA_min[1] <= p.CA_max[1]

Raster == incl_chamada[1].raster

Inclinacao == incl_retorno[1]

\* the call read the block of the raster
BlocoLido ==
    /\ incl_chamada # << >>
    /\ Raster.camada = "valida" /\ ~Raster.lote_vazio /\ Raster.cobre
    /\ Raster.bloco = "lido"

\* the cells of the block that are inside the parcel, are not no-data and
\* hold a value in 0..90 degrees
Amostrados ==
    {i \in 1..Len(Raster.pixels) :
        /\ Raster.pixels[i].dentro
        /\ (Raster.nodata = << >> \/ Raster.pixels[i].valor # Raster.nodata[1])
        /\ Raster.pixels[i].valor \in 0..900}

\* the six bands: label, and the degrees (in tenths) above which and up to
\* which a value is in the band
Bandas ==
    << [faixa |-> "<= 3", acima |-> 0 - 1, ate |-> 30],
       [faixa |-> "3 - 8", acima |-> 30, ate |-> 80],
       [faixa |-> "8 - 15", acima |-> 80, ate |-> 150],
       [faixa |-> "15 - 30", acima |-> 150, ate |-> 300],
       [faixa |-> "30 - 45", acima |-> 300, ate |-> 450],
       [faixa |-> "> 45 (APP)", acima |-> 450, ate |-> 900] >>

\* the pixel count and the area a result reports for a band, 0 when the
\* band is not in faixas
ContagemDaFaixa(r, faixa) ==
    Soma([i \in 1..Len(r.faixas) |-> IF r.faixas[i].faixa = faixa THEN r.faixas[i].count ELSE 0])

AreaDaFaixa(r, faixa) ==
    Soma([i \in 1..Len(r.faixas) |-> IF r.faixas[i].faixa = faixa THEN r.faixas[i].area_m2 ELSE 0])

SomaDasContagens(r) == Soma([i \in 1..Len(r.faixas) |-> r.faixas[i].count])

SomaDasAreas(r) == Soma([i \in 1..Len(r.faixas) |-> r.faixas[i].area_m2])

\* every sampled pixel is counted in exactly the band its value lies in
ContagensParticionam ==
    /\ \A k \in 1..6 :
          ContagemDaFaixa(Inclinacao, Bandas[k].faixa)
             = Cardinality({i \in Amostrados :
                               /\ Raster.pixels[i].valor > Bandas[k].acima
                               /\ Raster.pixels[i].valor <= Bandas[k].ate})
    /\ SomaDasContagens(Inclinacao) = Cardinality(Amostrados)
    /\ \A i, j \in 1..Len(Inclinacao.faixas) :
          i # j => Inclinacao.faixas[i].faixa # Inclinacao.faixas[j].faixa

\* C15 as stated: the counts of the bands partition the sampled pixels and
\* the areas of the bands sum to the total analysed area.
C15_Original ==
    (BlocoLido /\ Amostrados # {}) =>
        /\ ContagensParticionam
        /\ SomaDasAreas(Inclinacao) = Inclinacao.area_total_m2

\* C15: the counts of the bands partition the sampled pixels (upper limits
\* inclusive) and sum to the number of valid pixels.  The area of each band
\* and the total area are each rounded to 0.01 m2, so the reported areas sum
\* to the reported total up to half a hundredth for each rounded number, and
\* exactly when the area of a pixel is a whole number of hundredths.
C15_FaixasParticionam ==
    (BlocoLido /\ Amostrados # {}) =>
        /\ ContagensParticionam
        /\ Inclinacao.estatisticas[1].pixels_validos = Cardinality(Amostrados)
        /\ 2 * (SomaDasAreas(Inclinacao) - Inclinacao.area_total_m2)
              <= Len(Inclinacao.faixas) + 1
        /\ 2 * (Inclinacao.area_total_m2 - SomaDasAreas(Inclinacao))
              <= Len(Inclinacao.faixas) + 1
        /\ Raster.area_pixel_m2 % 100 = 0 =>
              SomaDasAreas(Inclinacao) = Inclinacao.area_total_m2

\* a pixel of exactly 3 degrees and one just above: two bands of one pixel,
\* whose rounded areas do not sum to the rounded total
C15_Witness ==
    /\ BlocoLido
    /\ Len(Raster.pixels) = 2
    /\ Raster.pixels[1] = [dentro |-> TRUE, valor |-> 30]
    /\ Raster.pixels[2] = [dentro |-> TRUE, valor |-> 31]
    /\ ContagemDaFaixa(Inclinacao, "<= 3") = 1
    /\ ContagemDaFaixa(Inclinacao, "3 - 8") = 1
    /\ SomaDasAreas(Inclinacao) # Inclinacao.area_total_m2

SemDados ==
    \/ Raster.camada # "valida"
    \/ ~Raster.cobre
    \/ Raster.bloco # "lido"
    \/ (BlocoLido /\ Amostrados = {})

\* the error result: no band, no area, no flag, one message
Indisponivel(r) ==
    /\ r.faixas = << >>
    /\ r.area_total_m2 = 0
    /\ r.area_app_inclinacao_m2 = 0
    /\ r.percentual_app_inclinacao = 0
    /\ ~r.tem_app_por_inclinacao
    /\ Len(r.mensagens) = 1

\* C17: every call returns (no exception leaves it), and it returns the
\* error result whenever the raster is invalid, does not meet the parcel,
\* cannot be read, or has no valid pixel inside the parcel.
C17_SemDadosIndisponivel ==
    incl_chamada # << >> =>
        /\ incl_retorno # << >>
        /\ SemDados => Indisponivel(Inclinacao)

\* a raster that is all no-data over the parcel, the no-data value being one
\* a slope could take
C17_Witness ==
    /\ BlocoLido
    /\ Raster.nodata = <<0>>
    /\ \A i \in 1..Len(Raster.pixels) :
          Raster.pixels[i] = [dentro |-> TRUE, valor |-> 0]
    /\ Indisponivel(Inclinacao)
    /\ Inclinacao.mensagens = <<"Nenhum pixel válido dentro do lote">>

(***************************************************************************)
(* Properties of the slope block of analisar_lote.                         *)
(***************************************************************************)
\* analisar_lote returned for a project without a slope layer
RetornouSemCamadaDeInclinacao ==
    /\ lote_pc = "fim"
    /\ retorno # << >>
    /\ locais.camada_inclinacao = << >>

\* C18: when analisar_lote runs without a slope raster layer, the slope
\* result it returns is absent or the error result with its message; it holds
\* no band, area, percentage or flag that was not counted from pixels.
C18_InclinacaoNuncaFabricada ==
    RetornouSemCamadaDeInclinacao =>
        \/ retorno[1].inclinacao = << >>
        \/ Indisponivel(retorno[1].inclinacao[1])

(***************************************************************************)
(* Properties of calcular_testadas_e_logradouros.                          *)
(***************************************************************************)
\* the parcel, the layers and the result of the call that was made
LoteGeom == test_chamada[1].lote_geom

Testadas == test_retorno[1]

\* calcular_testadas_e_logradouros returned for a parcel with a geometry
CalculouTestadas ==
    /\ test_chamada # << >>
    /\ test_retorno # << >>
    /\ LoteGeom # << >>

\* the edges of a parcel: part, ring and position of the first vertex
Arestas(lote_geom) ==
    {a \in (1..Len(lote_geom.partes)) \X (1..2) \X (1..5) :
        /\ a[2] <= Len(lote_geom.partes[a[1]])
        /\ a[3] < Len(lote_geom.partes[a[1]][a[2]])}

\* the two ends of an edge
Pontas(lote_geom, a) ==
    <<lote_geom.partes[a[1]][a[2]][a[3]], lote_geom.partes[a[1]][a[2]][a[3] + 1]>>

ArestasPositivas(lote_geom) ==
    {a \in Arestas(lote_geom) : Pontas(lote_geom, a)[1] # Pontas(lote_geom, a)[2]}

ArestasNulas(lote_geom) == Arestas(lote_geom) \ ArestasPositivas(lote_geom)

\* the sum of the lengths of a set of edges
RECURSIVE ComprimentoDasArestas(_, _)
ComprimentoDasArestas(lote_geom, arestas) ==
    IF arestas = {} THEN 0
    ELSE Distancia(Pontas(lote_geom, CHOOSE a \in arestas : TRUE)[1],
                   Pontas(lote_geom, CHOOSE a \in arestas : TRUE)[2])
         + ComprimentoDasArestas(lote_geom, arestas \ {CHOOSE a \in arestas : TRUE})

Perimetro(lote_geom) == ComprimentoDasArestas(lote_geom, Arestas(lote_geom))

RECURSIVE SomaDosComprimentos(_)
SomaDosComprimentos(segmentos) ==
    IF segmentos = << >> THEN 0
    ELSE Head(segmentos).comprimento_m + SomaDosComprimentos(Tail(segmentos))

\* the returned segments lying on an edge
SegmentosDaAresta(a) ==
    {i \in 1..Len(Testadas.segmentos) : Testadas.segmentos[i].geom = Pontas(LoteGeom, a)}

Tipos == {Testadas.segmentos[i].tipo_limite : i \in 1..Len(Testadas.segmentos)}

\* C19: for a parcel polygon, calcular_testadas_e_logradouros returns exactly
\* one segment for each edge of positive length between consecutive vertices
\* of a ring, outer or inner, of the edge's length; each segment is a TESTADA
\* or a DIVISA; the lengths sum to the perimeter; an edge of length 0 gets no
\* segment and does not make the call fail.
C19_ParticaoDoPerimetro ==
    CalculouTestadas =>
        /\ Len(Testadas.segmentos) = Cardinality(ArestasPositivas(LoteGeom))
        /\ \A a \in ArestasPositivas(LoteGeom) :
              /\ Cardinality(SegmentosDaAresta(a)) = 1
              /\ \A i \in SegmentosDaAresta(a) :
                    Testadas.segmentos[i].comprimento_m
                        = Distancia(Pontas(LoteGeom, a)[1], Pontas(LoteGeom, a)[2])
        /\ \A a \in ArestasNulas(LoteGeom) : SegmentosDaAresta(a) = {}
        /\ \A i \in 1..Len(Testadas.segmentos) :
              Testadas.segmentos[i].tipo_limite \in {"TESTADA", "DIVISA"}
        /\ SomaDosComprimentos(Testadas.segmentos) = Perimetro(LoteGeom)

\* a parcel with a hole and an edge of length 0, whose boundary has both a
\* TESTADA and a DIVISA
C19_Witness ==
    /\ CalculouTestadas
    /\ Len(LoteGeom.partes[1]) = 2
    /\ ArestasNulas(LoteGeom) # {}
    /\ Tipos = {"TESTADA", "DIVISA"}
    /\ SomaDosComprimentos(Testadas.segmentos) = 144

\* some edge of the parcel has no parcel on its outer side
HaArestaSemVizinho ==
    \E i \in 1..Len(Testadas.segmentos) :
        LET e == test_chamada[1].entornos[Testadas.segmentos[i].id_segmento]
        IN  e.normal /\ e.vizinhos = << >> /\ e.vias # << >>

\* C20: when camada_logradouros is None, calcular_testadas_e_logradouros
\* returns a result (no exception), no segment is a TESTADA, every segment
\* with no parcel on its outer side is a DIVISA with no neighbour and no
\* road, and testadas_por_logradouro is empty.
C20_SemCamadaDeLogradouros ==
    (test_chamada # << >> /\ test_chamada[1].camada_logradouros = "None") =>
        /\ test_retorno # << >>
        /\ \A i \in 1..Len(Testadas.segmentos) :
              /\ Testadas.segmentos[i].tipo_limite = "DIVISA"
              /\ Testadas.segmentos[i].logradouro = None
              /\ (\/ test_chamada[1].camada_lotes = "None"
                  \/ test_chamada[1].entornos[Testadas.segmentos[i].id_segmento].vizinhos = << >>)
                     => Testadas.segmentos[i].confrontante = None
        /\ Testadas.testadas_por_logradouro = << >>

\* a call without a road layer on a parcel one edge of which faces a road and
\* no parcel
C20_Witness ==
    /\ CalculouTestadas
    /\ test_chamada[1].camada_logradouros = "None"
    /\ test_chamada[1].camada_lotes = "com_campo"
    /\ HaArestaSemVizinho
    /\ Testadas.testadas_por_logradouro = << >>

(***************************************************************************)
(* Properties of calcular_zoneamento_incidente.                            *)
(***************************************************************************)
\* the call that was made and its result
CamadaZ == zl_chamada[1].camada_zoneamento

ResGeom == zl_retorno[1]

\* no field of the layer is the forced field or one of the candidates
SemCampoDeCodigo ==
    /\ CamadaZ # << >>
    /\ \A i \in 1..Len(CamadaZ[1].campos) :
          /\ ~Em(CamadaZ[1].campos[i], CAMPOS_CODIGO_ZONA_CANDIDATOS)
          /\ zl_chamada[1].campo_codigo_zona # <<CamadaZ[1].campos[i]>>

\* the field the codes are read from
CampoLido == detectar_campo_codigo_zona(CamadaZ, zl_chamada[1].campo_codigo_zona)[1]

\* the features whose intersection with the parcel has a positive area and
\* that carry the code cod
FeicoesDoCodigo(cod) ==
    {i \in 1..Len(CamadaZ[1].feicoes) :
        /\ CamadaZ[1].feicoes[i].geom = "inter"
        /\ CamadaZ[1].feicoes[i].area_inter > 0
        /\ Strip(CamadaZ[1].feicoes[i].atributos[CampoLido]) = cod}

RECURSIVE AreaDasFeicoes(_)
AreaDasFeicoes(S) ==
    IF S = {} THEN 0
    ELSE CamadaZ[1].feicoes[CHOOSE i \in S : TRUE].area_inter
         + AreaDasFeicoes(S \ {CHOOSE i \in S : TRUE})

\* the codes some feature contributes
CodigosContribuidos ==
    {Strip(CamadaZ[1].feicoes[i].atributos[CampoLido]) : i \in
        {j \in 1..Len(CamadaZ[1].feicoes) :
            /\ CamadaZ[1].feicoes[j].geom = "inter"
            /\ CamadaZ[1].feicoes[j].area_inter > 0}} \ {<< >>}

\* C21: calcular_zoneamento_incidente returns (never raises); with no zoning
\* layer or no detectable zone-code field the result is empty (no zone, total
\* area 0); otherwise each returned code maps to the sum of the positive
\* intersection areas of the features carrying it, and a feature whose
\* intersection has area 0 adds no entry.
C21_ZoneamentoIncidente ==
    zl_chamada # << >> =>
        /\ zl_retorno # << >>
        /\ (CamadaZ = << >> \/ SemCampoDeCodigo) => ResGeom = ResultadoZoneamentoVazio
        /\ (zl_chamada[1].lote_geom # << >> /\ CamadaZ # << >> /\ ~SemCampoDeCodigo) =>
              /\ Range(ResGeom.zonas) = CodigosContribuidos
              /\ Len(ResGeom.areas_por_zona) = Cardinality(CodigosContribuidos)
              /\ \A i \in 1..Len(ResGeom.areas_por_zona) :
                    /\ ResGeom.areas_por_zona[i][1] \in CodigosContribuidos
                    /\ ResGeom.areas_por_zona[i][2]
                          = AreaDasFeicoes(FeicoesDoCodigo(ResGeom.areas_por_zona[i][1]))
                    /\ ResGeom.areas_por_zona[i][2] > 0
              /\ ResGeom.area_total_zoneada = Soma(DictValues(ResGeom.areas_por_zona))

\* two features carry the same code, one of them written between blanks:
\* the code maps to the sum of both areas
C21_Witness ==
    /\ zl_chamada # << >> /\ zl_retorno # << >>
    /\ zl_chamada[1].lote_geom # << >>
    /\ CamadaZ # << >>
    /\ Len(CamadaZ[1].feicoes) = 2
    /\ CamadaZ[1].feicoes[1].atributos[CampoLido] = <<"Z", "R", "1">>
    /\ CamadaZ[1].feicoes[2].atributos[CampoLido] = <<" ", "Z", "R", "1", " ">>
    /\ ResGeom.areas_por_zona = << << <<"Z", "R", "1">>, 800 >> >>

(***************************************************************************)
(* Properties of the failures of analisar_lote.                            *)
(***************************************************************************)
\* C22: only an empty or invalid parcel geometry aborts analisar_lote; for a
\* non-empty parcel no failure of a sub-component (a missing layer, an
\* exception in the decomposition, the boundary, the resolver or the slope
\* analysis, a lot area that is not positive) reaches the caller, and the
\* result that is returned holds the raw zoning result.
C22_SoGeometriaVaziaAborta ==
    /\ lote_pc = "erro" => (mundo.geom_vazia /\ excecao = "ValueError")
    /\ (lote_pc = "fim" /\ ~mundo.geom_vazia) => retorno # << >>

(***************************************************************************)
(* Properties of the layer registry across requests.                       *)
(***************************************************************************)
\* the layers held by the combo boxes of the requests other than the running one
CamadasDeOutroPedido == {<<n>> : n \in (1..MaxPedidos) \ {pedido}}

\* C23: a layer lookup made by an analysis returns the layer supplied for
\* that same request and never a layer registered by another request, also
\* when the running request supplies no layer for the role.
C23_PedidosIsolados ==
    (pedido_pc = "analisando" /\ consulta # << >>) =>
        /\ consulta[1].camada \notin CamadasDeOutroPedido
        /\ combos[consulta[1].chave] # << >> =>
              consulta[1].camada = combos[consulta[1].chave]

(***************************************************************************)
(* Properties of carregar_parametros_de_arquivo.                           *)
(***************************************************************************)
\* the indices object of the file that was loaded, and the outcome
IndicesLidos == carga_chamada[1][1][2]

Carga == carga_retorno[1]

\* the number, in thousandths, a text with decimal comma and points between
\* the thousands stands for
NumeroDoTexto(t) ==
    CASE t = <<"1", ".", "2", "3", "4", ",", "5">> -> 1234500
      [] t = <<"2", ",", "5">> -> 2500
      [] t = <<"4", ",", "0">> -> 4000
      [] t = <<" ", "0", ",", "2", "5", " ">> -> 250
      [] t = <<"1", ".", "0", "0", "0">> -> 1000000
      [] t = <<"4">> -> 4000

\* the keys of the indices object that hold such a text
CamposComTexto ==
    {k \in (DOMAIN IndicesLidos) \cap CamposNumericos :
        \E t \in TextosBrasileiros : IndicesLidos[k] = Str(t)}

\* C24: for each of the nine numeric fields, a string written with a decimal
\* comma and points between the thousands is parsed into the number it stands
\* for without raising (a whole number for Npav_bas and Npav_max), and every
\* other key of the indices object is kept unchanged in extras.
C24_TextoBrasileiroLido ==
    (carga_chamada # << >> /\ CamposComTexto # {}) =>
        /\ Carga.excecao = None
        /\ \A k \in CamposComTexto :
              IF k \in {"Npav_bas", "Npav_max"}
              THEN NumeroDoTexto(IndicesLidos[k].chars) % 1000 = 0 =>
                      Carga.parametros_por_zona[1][2][k]
                         = <<NumeroDoTexto(IndicesLidos[k].chars) \div 1000>>
              ELSE Carga.parametros_por_zona[1][2][k]
                      = <<NumeroDoTexto(IndicesLidos[k].chars)>>
        /\ Carga.parametros_por_zona[1][2].extras
              = [k \in (DOMAIN IndicesLidos) \ CamposNumericos |-> IndicesLidos[k]]

(***************************************************************************)
(* Properties of the precedence of axes and of the mandatory coexistence.  *)
(***************************************************************************)
\* the zones deduced from the frontage streets of the request to the rulebook
ZonasDeduzidasDoPedido ==
    {_zona_por_logradouro(chamada_regra.testadas_por_logradouro[i]) :
        i \in 1..Len(chamada_regra.testadas_por_logradouro)} \ {None, ""}

\* the zones incident on the parcel of the request to the rulebook
IncidentesDaRegra == Range(chamada_regra.zonas) \cup ZonasDeduzidasDoPedido

\* no note applies to the request to the rulebook
SemNotaNaRegra ==
    /\ ~chamada_regra.nota10_ativada /\ ~chamada_regra.nota37_ativada
    /\ ~AcessoLucio(chamada_regra.testadas_por_logradouro)

\* the categories of a code: a semi-axis zone is one whose code starts with
\* SEMI, an axis zone one the rulebook classifies as axis that is no semi-axis
EhSemiEixoDaRegra(z) == StartsWith(Strip(Upper(Chars(z))), Chars("SEMI"))
EhEixoDaRegra(z) == _classificar_zona(z) = "EIXO" /\ ~EhSemiEixoDaRegra(z)
EhMacroVariavel(z) == _classificar_zona(z) = "MACRO" /\ z \notin MACROZONAS_COEXISTENTES

\* the area of the request to the rulebook on which a zone is incident
AreaDaRegra(z) == Get(chamada_regra.areas_por_zona, z, 0)

\* C25: when no note applies and no Special zone is incident, an Axis zone
\* incident together with an urban macro zone or with a semi-axis zone (the
\* SEMIEIXO deduced from a frontage street included) gives as reference zone
\* the Axis zone of largest area, never a macro or semi-axis zone, under the
\* label EIXO_SOBRE_MACRO or EIXO_SOBRE_SEMIEIXO respectively.
C25_EixoPrevalece ==
    \A r \in ResultadosRegra :
        LET eixos == {z \in IncidentesDaRegra : EhEixoDaRegra(z)}
            semis == {z \in IncidentesDaRegra : EhSemiEixoDaRegra(z)}
            macros == {z \in IncidentesDaRegra : EhMacroVariavel(z)}
        IN  (/\ SemNotaNaRegra
             /\ \A z \in IncidentesDaRegra : _classificar_zona(z) # "ESPECIAL"
             /\ eixos # {}
             /\ macros # {} \/ semis # {}) =>
               /\ r.zona_principal \in eixos
               /\ \A y \in eixos : AreaDaRegra(y) <= AreaDaRegra(r.zona_principal)
               /\ macros # {} => r.tipo_regra = "EIXO_SOBRE_MACRO"
               /\ (macros = {} /\ semis # {}) => r.tipo_regra = "EIXO_SOBRE_SEMIEIXO"

\* C26: a result of type COEXISTENCIA_MACROZONAS_FIXAS never has a zone of the
\* set of mandatory coexistence (MUO, MUPA1, MUPA2, MRPA) as reference zone,
\* and no result has one as reference zone while an Axis zone is incident.
C26_CoexistenciaSemReferenciaFixa ==
    \A r \in ResultadosRegra :
        /\ r.tipo_regra = "COEXISTENCIA_MACROZONAS_FIXAS"
              => r.zona_principal \notin MACROZONAS_COEXISTENTES
        /\ (\E z \in IncidentesDaRegra : _classificar_zona(z) = "EIXO")
              => r.zona_principal \notin MACROZONAS_COEXISTENTES

\* C26 witness: the axis EU1 with 300 and MUO with 500 give the type of the
\* coexistence, MUO stays among the macro zones and the reference is EU1.
C26_Witness ==
    /\ pc = "regra" /\ SemNotaNaRegra
    /\ chamada_regra.zonas = <<"EU1", "MUO">>
    /\ ZonasDeduzidasDoPedido = {}
    /\ AreaDaRegra("EU1") = 300 /\ AreaDaRegra("MUO") = 500
    /\ rr.tipo_regra = "COEXISTENCIA_MACROZONAS_FIXAS"
    /\ rr.zonas_macros = <<"MUO">>
    /\ rr.zona_principal = "EU1"

(***************************************************************************)
(* Properties of the classification of the boundary segments.              *)
(***************************************************************************)
\* the surroundings of a returned segment
EntornoDoSegmento(i) == test_chamada[1].entornos[Testadas.segmentos[i].id_segmento]

\* the parcels of camada_lotes holding the probe point of a segment
VizinhosDoSegmento(i) ==
    IF EntornoDoSegmento(i).normal /\ test_chamada[1].camada_lotes # "None"
    THEN EntornoDoSegmento(i).vizinhos ELSE << >>

\* the roads of camada_logradouros the ray of a segment intersects
ViasDoSegmento(i) ==
    IF EntornoDoSegmento(i).normal /\ test_chamada[1].camada_logradouros # "None"
    THEN EntornoDoSegmento(i).vias ELSE << >>

\* those of them that have a name
ViasNomeadasDoSegmento(i) ==
    IF test_chamada[1].camada_logradouros = "com_campo"
    THEN SelectSeq(ViasDoSegmento(i), LAMBDA v : v.nome # << >> /\ v.nome # <<"">>)
    ELSE << >>

\* C27: a segment whose probe point lies inside a neighbouring parcel is a
\* DIVISA, also with a road within reach; otherwise, a segment whose ray
\* intersects at least one named road is a TESTADA with the name of the
\* nearest intersecting road; otherwise it is a DIVISA with no neighbour and
\* no street.
C27_OrdemDaClassificacao ==
    CalculouTestadas =>
        \A i \in 1..Len(Testadas.segmentos) :
            IF VizinhosDoSegmento(i) # << >>
            THEN /\ Testadas.segmentos[i].tipo_limite = "DIVISA"
                 /\ Testadas.segmentos[i].logradouro = None
            ELSE IF ViasNomeadasDoSegmento(i) # << >>
            THEN /\ Testadas.segmentos[i].tipo_limite = "TESTADA"
                 /\ Testadas.segmentos[i].logradouro
                       = MelhorVia(ViasNomeadasDoSegmento(i)).nome[1]
            ELSE /\ Testadas.segmentos[i].tipo_limite = "DIVISA"
                 /\ Testadas.segmentos[i].confrontante = None
                 /\ Testadas.segmentos[i].logradouro \in {None, ""}

\* the sum of the lengths of the returned segments of a set of positions
RECURSIVE ComprimentoDosSegmentos(_)
ComprimentoDosSegmentos(S) ==
    IF S = {} THEN 0
    ELSE Testadas.segmentos[CHOOSE i \in S : TRUE].comprimento_m
         + ComprimentoDosSegmentos(S \ {CHOOSE i \in S : TRUE})

\* the TESTADA segments of a street and the DIVISA segments of a neighbour
TestadasDoLogradouro(nome) ==
    {i \in 1..Len(Testadas.segmentos) :
        /\ Testadas.segmentos[i].tipo_limite = "TESTADA"
        /\ Testadas.segmentos[i].logradouro = nome}

DivisasDoConfrontante(id) ==
    {i \in 1..Len(Testadas.segmentos) :
        /\ Testadas.segmentos[i].tipo_limite = "DIVISA"
        /\ Testadas.segmentos[i].confrontante = id}

\* a dict kept as the list of its items has each key once
ChavesUnicas(d) == \A i, j \in 1..Len(d) : d[i][1] = d[j][1] => i = j

\* C30: in every ResultadoTestadas a segment is a TESTADA if and only if it
\* carries a non-empty logradouro; a TESTADA carries no confrontante;
\* testadas_por_logradouro maps each street name carried by a TESTADA, and
\* nothing else, to the sum of the lengths of the TESTADA segments of that
\* name; confrontantes_por_proprietario maps each neighbour carried by a
\* DIVISA, and nothing else, to the sum of the lengths of its DIVISA segments.
C30_SegmentosConsistentes ==
    test_retorno # << >> =>
        /\ \A i \in 1..Len(Testadas.segmentos) :
              /\ Testadas.segmentos[i].tipo_limite = "TESTADA"
                    <=> Testadas.segmentos[i].logradouro \notin {None, ""}
              /\ Testadas.segmentos[i].tipo_limite = "TESTADA"
                    => Testadas.segmentos[i].confrontante = None
        /\ ChavesUnicas(Testadas.testadas_por_logradouro)
        /\ {Testadas.testadas_por_logradouro[k][1] :
               k \in 1..Len(Testadas.testadas_por_logradouro)}
              = {Testadas.segmentos[i].logradouro : i \in
                   {j \in 1..Len(Testadas.segmentos) :
                       Testadas.segmentos[j].tipo_limite = "TESTADA"}}
        /\ \A k \in 1..Len(Testadas.testadas_por_logradouro) :
              Testadas.testadas_por_logradouro[k][2]
                 = ComprimentoDosSegmentos(
                      TestadasDoLogradouro(Testadas.testadas_por_logradouro[k][1]))
        /\ ChavesUnicas(Testadas.confrontantes_por_proprietario)
        /\ {Testadas.confrontantes_por_proprietario[k][1] :
               k \in 1..Len(Testadas.confrontantes_por_proprietario)}
              = {Testadas.segmentos[i].confrontante : i \in
                   {j \in 1..Len(Testadas.segmentos) :
                       /\ Testadas.segmentos[j].tipo_limite = "DIVISA"
                       /\ Testadas.segmentos[j].confrontante \notin {None, ""}}}
        /\ \A k \in 1..Len(Testadas.confrontantes_por_proprietario) :
              Testadas.confrontantes_por_proprietario[k][2]
                 = ComprimentoDosSegmentos(
                      DivisasDoConfrontante(Testadas.confrontantes_por_proprietario[k][1]))

\* C30 witness: the sides of 30 and 40 m front Rua A and the side of 50 m
\* borders the parcel of Ana
C30_Witness ==
    /\ CalculouTestadas
    /\ Len(Testadas.segmentos) = 3
    /\ Testadas.testadas_por_logradouro = << <<"Rua A", 70>> >>
    /\ Testadas.confrontantes_por_proprietario = << <<"Ana", 50>> >>
    /\ Cardinality(TestadasDoLogradouro("Rua A")) = 2
    /\ Cardinality(DivisasDoConfrontante("Ana")) = 1

(***************************************************************************)
(* Properties of the sequencing of analisar_lote.                          *)
(***************************************************************************)
\* C28: when analisar_lote returns for a valid parcel whose decomposition has
\* at least one incident zone, the resolver has run, so zona_resolvida is
\* not None; and when the reference zone it resolved has parameters in the
\* table, the evaluation has run and zoneamento_avaliacao is not None.
C28_ResolveEAvalia ==
    (/\ lote_pc = "fim"
     /\ retorno[1].zoneamento_geom # << >>
     /\ retorno[1].zoneamento_geom[1].zonas # << >>) =>
        /\ retorno[1].zona_resolvida # << >>
        /\ (/\ TemZonaDeReferencia(retorno[1].zona_resolvida)
            /\ retorno[1].zona_resolvida[1].parametros # << >>)
              => retorno[1].zoneamento_avaliacao # << >>

(***************************************************************************)
(* infraestrutura/espacial/validadores.py                                  *)
(*   a call of lotes_sao_contiguos is a record with vazia, which tells for *)
(*   each feature whether its geometry is None or empty, and intersecta,   *)
(*   the pairs of features whose geometries intersect; list positions      *)
(*   count from 1                                                          *)
(***************************************************************************)
\* adj with adj[i].append(j) only, without adj[j].append(i)
Adjacencia_SoParaFrente(n, intersecta) ==
    [i \in 1..n |-> SelectSeq([j \in 1..n |-> j], LAMBDA j : j > i /\ {i, j} \in intersecta)]

\* adj after the two loops over i and j > i: the neighbours of each vertex,
\* in ascending order
Adjacencia(n, intersecta) ==
    [i \in 1..n |-> SelectSeq([j \in 1..n |-> j], LAMBDA j : j # i /\ {i, j} \in intersecta)]

\* the selections of parcels: up to MaxLotes features, any of them with an
\* empty geometry, any pairs of the others intersecting
SelecoesDeLotes ==
    UNION {{[vazia |-> v, intersecta |-> x] :
               x \in SUBSET {par \in SUBSET {i \in DOMAIN v : ~v[i]} : Cardinality(par) = 2}}
           : v \in UNION {[1..n -> BOOLEAN] : n \in 0..MaxLotes}}

\* lotes_sao_contiguos(features) up to the while loop
ChamarLotesSaoContiguos ==
    /\ contiguos_pc = "ocioso"
    /\ \E selecao \in SelecoesDeLotes :
          /\ contiguos_chamada' = selecao
          /\ IF Len(selecao.vazia) <= 1
             THEN /\ contiguos_retorno' = <<TRUE>>
                  /\ contiguos_pc' = "retornou"
                  /\ UNCHANGED <<adj, visitados, pilha>>
             ELSE IF \E i \in 1..Len(selecao.vazia) : selecao.vazia[i]
             THEN /\ contiguos_retorno' = <<FALSE>>
                  /\ contiguos_pc' = "retornou"
                  /\ UNCHANGED <<adj, visitados, pilha>>
             ELSE /\ adj' = Adjacencia(Len(selecao.vazia), selecao.intersecta)
                  /\ visitados' = {}
                  /\ pilha' = <<1>>
                  /\ contiguos_pc' = "while"
                  /\ UNCHANGED contiguos_retorno
    /\ UNCHANGED gleba
    /\ UNCHANGED <<varsResolucao, varsLote, varsAvaliacao, varsInclinacao, varsTestadas, varsZoneamentoLote, varsCamadas, varsCarga>>

\* one iteration of while pilha
PassoDaPilha ==
    /\ contiguos_pc = "while"
    /\ pilha # << >>
    /\ LET idx == pilha[Len(pilha)]
           resto == SubSeq(pilha, 1, Len(pilha) - 1)
       IN  IF idx \in visitados
           THEN /\ pilha' = resto
                /\ UNCHANGED visitados
           ELSE /\ visitados' = visitados \cup {idx}
                /\ pilha' = resto \o SelectSeq(adj[idx],
                                               LAMBDA viz : viz \notin visitados \cup {idx})
    /\ UNCHANGED <<contiguos_pc, contiguos_chamada, adj, contiguos_retorno, gleba>>
    /\ UNCHANGED <<varsResolucao, varsLote, varsAvaliacao, varsInclinacao, varsTestadas, varsZoneamentoLote, varsCamadas, varsCarga>>

\* return len(visitados) == len(geoms)
RetornarContiguos ==
    /\ contiguos_pc = "while"
    /\ pilha = << >>
    /\ contiguos_retorno' = <<Cardinality(visitados) = Len(contiguos_chamada.vazia)>>
    /\ contiguos_pc' = "retornou"
    /\ UNCHANGED <<contiguos_chamada, adj, visitados, pilha, gleba>>
    /\ UNCHANGED <<varsResolucao, varsLote, varsAvaliacao, varsInclinacao, varsTestadas, varsZoneamentoLote, varsCamadas, varsCarga>>

\* executar_analise_zoni_v2, the case of several parcels, and analisar_gleba:
\* the joint analysis goes on only if lotes_sao_contiguos returned True
AnalisarGleba ==
    /\ contiguos_pc = "retornou"
    /\ Len(contiguos_chamada.vazia) > 1
    /\ gleba' = IF ~contiguos_retorno[1] THEN "recusada" ELSE "iniciada"
    /\ contiguos_pc' = "fim"
    /\ UNCHANGED <<contiguos_chamada, adj, visitados, pilha, contiguos_retorno>>
    /\ UNCHANGED <<varsResolucao, varsLote, varsAvaliacao, varsInclinacao, varsTestadas, varsZoneamentoLote, varsCamadas, varsCarga>>

NextContiguos ==
    ChamarLotesSaoContiguos \/ PassoDaPilha \/ RetornarContiguos \/ AnalisarGleba

\* the call is made and the interpreter goes on executing it
SpecContiguos == Init /\ [][NextContiguos]_vars /\ WF_vars(NextContiguos)

(***************************************************************************)
(* Properties of lotes_sao_contiguos.                                      *)
(***************************************************************************)
\* the parcels reachable from a set of parcels over intersecting pairs
RECURSIVE Alcancaveis(_)
Alcancaveis(S) ==
    LET mais == S \cup {j \in 1..Len(contiguos_chamada.vazia) :
                           \E i \in S : {i, j} \in contiguos_chamada.intersecta}
    IN  IF mais = S THEN S ELSE Alcancaveis(mais)

\* every parcel has a geometry and is reachable from the first
TodosComGeometriaEConexos ==
    /\ \A i \in 1..Len(contiguos_chamada.vazia) : ~contiguos_chamada.vazia[i]
    /\ Len(contiguos_chamada.vazia) > 0
          => Alcancaveis({1}) = 1..Len(contiguos_chamada.vazia)

Retornou == contiguos_pc \in {"retornou", "fim"}

\* C29 as stated: the value returned is True exactly when every parcel has a
\* non-empty geometry and the graph of the intersecting parcels is connected.
\* Fails for a single parcel whose geometry is empty, which gives True.
C29_Original == Retornou => (contiguos_retorno[1] <=> TodosComGeometriaEConexos)

\* the value returned, the case of a single parcel apart
ContiguosCorreto ==
    /\ Retornou =>
          IF Len(contiguos_chamada.vazia) <= 1 THEN contiguos_retorno[1]
          ELSE contiguos_retorno[1] <=> TodosComGeometriaEConexos
    /\ gleba = "iniciada" => contiguos_retorno[1]

\* C29: lotes_sao_contiguos terminates; for zero or one parcel it returns
\* True, whatever the geometry; for two or more it returns True exactly when
\* every parcel has a non-empty geometry and every parcel is reachable from
\* the first over pairs of intersecting parcels, hence False when any
\* geometry is empty; and a joint analysis of several parcels is started only
\* after it returned True.
C29_Contiguos == []ContiguosCorreto /\ <>Retornou

\* C29 witness: parcels 1 and 2 do not intersect and both intersect parcel 3;
\* the loop has visited the three, parcel 2 last, and the joint analysis starts
C29_Witness ==
    /\ contiguos_pc = "fim"
    /\ contiguos_chamada.intersecta = {{1, 3}, {2, 3}}
    /\ visitados = {1, 2, 3}
    /\ contiguos_retorno = <<TRUE>>
    /\ gleba = "iniciada"

=============================================================================
